---- MODULE Spec2Model ----
(***************************************************************************)
(* ArduRoomba: the serial driver core (RoombaCore).  The model covers the  *)
(* initialisation sequence, the command writer, the stream start/stop      *)
(* commands and the stream framer readStreamData with its checksum check.  *)
(*                                                                         *)
(* The transport (SoftwareSerial) is two byte queues: rx holds the bytes   *)
(* the robot has delivered and the driver has not read yet, sent holds the *)
(* bytes the last operation wrote.  The diagnostics (_lastError and the    *)
(* counters _bytesSent, _bytesReceived, _errorCount) are only written by   *)
(* the operations modelled here, never read, and are left out.             *)
(*                                                                         *)
(* On top of the core: the command encoder (RoombaCommands: drive,         *)
(* driveDirect, drivePWM, the clamping wrappers, defineSong, setSchedule   *)
(* and setDayTime) and the sensor layer                                    *)
(* (RoombaSensors: startStreaming, stopStreaming, updateFromStream and the *)
(* decoder parseStreamBuffer / parseSensorPacket writing a SensorData).    *)
(* Left out, as nothing modelled reads them: the copy of the sensor list   *)
(* kept by RoombaSensors, the statistics of RoombaCommands (_lastCommand,  *)
(* _commandsSent, _errorCount) and the debug output.                       *)
(*                                                                         *)
(* Further: beepSequence, the preset sensor lists, the sensor queries      *)
(* (requestSensor, requestSensors, getBatteryInfo, getBumperSensors,       *)
(* getWheelDropSensors), SensorData::getBatteryPercentage, the framer and  *)
(* the decoder of the legacy class ArduRoomba, and the connection handling *)
(* of ArduRoombaWiFi (begin, startWebServer, handleClient, reconnect).     *)
(***************************************************************************)
EXTENDS Integers, Sequences, FiniteSets, TLC

VARIABLES
    _initialized,        \* RoombaCore::_initialized
    _streamingActive,    \* RoombaCore::_streamingActive
    _streamSensorList,   \* RoombaCore::_streamSensorList[SENSOR_LIST]
    _streamSensorCount,  \* RoombaCore::_streamSensorCount
    _streamState,        \* RoombaCore::_streamState
    _streamBufferIndex,  \* RoombaCore::_streamBufferIndex
    _expectedStreamSize, \* RoombaCore::_expectedStreamSize
    _streamBuffer,       \* RoombaCore::_streamBuffer[STREAM_BUFFER]
    rx,                  \* transport: bytes delivered by the robot, unread
    sent,                \* transport: bytes written by the last operation
    buffer,              \* the bytes the last readStreamData wrote to the caller's array
    bufferSize,          \* the value the last readStreamData stored in *bufferSize
    pc,                  \* position inside readStreamData (stepwise runs)
    op,                  \* the last operation that returned
    result,              \* its return value
    erred,               \* a readStreamData call has returned a framing error
                         \* since the stream was started
    sensors_streamingActive, \* RoombaSensors::_streamingActive
    sensorData,          \* the caller's SensorData
    now,                 \* millis()
    args,                \* the arguments of the last command or decoder call
    wifi                 \* the ArduRoombaWiFi object, the access point and the
                         \* reconnection still owed

vars == <<_initialized, _streamingActive, _streamSensorList,
          _streamSensorCount, _streamState, _streamBufferIndex,
          _expectedStreamSize, _streamBuffer, rx, sent, buffer, bufferSize,
          pc, op, result, erred, sensors_streamingActive, sensorData, now,
          args, wifi>>

coreVars == <<_initialized, _streamingActive, _streamSensorList,
              _streamSensorCount, _streamState, _streamBufferIndex,
              _expectedStreamSize, _streamBuffer>>

histVars == <<op, result, erred>>

\* the state of the layers above the core
extVars == <<sensors_streamingActive, sensorData, now, args>>

(***************************************************************************)
(* Program constants.                                                      *)
(***************************************************************************)
STREAM_HEADER == 19
STREAM_BUFFER == 100
SENSOR_LIST == 60
OP_START == 128
OP_SAFE == 131
OP_STREAM == 148
ZERO_BYTE == 0
REFRESH_DELAY == 40
OP_BAUD == 129
OP_DRIVE == 137
OP_MOTORS == 138
OP_PLAY == 141
OP_DRIVE_DIRECT == 145
OP_DRIVE_PWM == 146
MAX_FORWARD == 500
MAX_BACKWARD == 0 - 500
TURN_IN_PLACE_CCW == 1
TURN_IN_PLACE_CW == 0 - 1
MAX_SONGS == 4
MAX_NOTES == 16
MIN_NOTE == 31
MAX_NOTE == 127
MAX_DURATION == 255
OP_SONG == 140
OP_SCHEDULE == 167
OP_SET_DAY_TIME == 168
OP_SENSORS == 142
OP_QUERY_LIST == 149

(***************************************************************************)
(* Bounds of the environment.                                              *)
(***************************************************************************)
\* longest content of the frames whose content is enumerated byte by byte
MaxN == 2

\* millis() advances by TickStep up to MaxNow
TickStep == 20

MaxNow == 40
\* the failed refresh attempts made before the long run starts
ManyFailures == 65534

\* a null array argument; every real array holds at least one entry
NullPtr == <<>>

\* *bufferSize was not assigned by the call
Unwritten == 0 - 1

Min(a, b) == IF a <= b THEN a ELSE b

Zeros(n) == [i \in 1..n |-> 0]

Filled(n, b) == [i \in 1..n |-> b]

\* memcpy(dst, src, n) on arrays held as sequences
Memcpy(dst, src, n) == [i \in 1..Len(dst) |-> IF i <= n THEN src[i] ELSE dst[i]]

RECURSIVE SumRange(_, _, _)
\* data[lo] + ... + data[hi] in uint8_t arithmetic, summed by halves
SumRange(data, lo, hi) ==
    IF lo > hi THEN 0
    ELSE IF lo = hi THEN data[lo] % 256
    ELSE LET mid == (lo + hi) \div 2
         IN  (SumRange(data, lo, mid) + SumRange(data, mid + 1, hi)) % 256

\* the uint8_t accumulation calculatedChecksum += data[i], i < n
SumBytes(data, n) == SumRange(data, 1, n)

(***************************************************************************)
(* RoombaCore: construction and initialisation.                            *)
(***************************************************************************)
\* the state the constructor leaves
Constructed ==
    /\ _initialized = FALSE
    /\ _streamingActive = FALSE
    /\ _streamSensorList = Zeros(SENSOR_LIST)
    /\ _streamSensorCount = 0
    /\ _streamState = "WAIT_HEADER"
    /\ _streamBufferIndex = 0
    /\ _expectedStreamSize = 0
    /\ _streamBuffer = Zeros(STREAM_BUFFER)

\* a sendCommand(opcode) that writes whatever the flag says
SendCommandUnchecked(initialized, opcode) ==
    [ret |-> "SUCCESS", bytes |-> <<opcode>>]

\* sendCommand(opcode): the bytes written and the value returned
SendCommand(initialized, opcode) ==
    IF ~initialized
    THEN [ret |-> "NOT_INITIALIZED", bytes |-> <<>>]
    ELSE [ret |-> "SUCCESS", bytes |-> <<opcode>>]

\* sendCommand(opcode, param)
SendCommand1(initialized, opcode, param) ==
    LET r == SendCommand(initialized, opcode)
    IN  IF r.ret # "SUCCESS" THEN r
        ELSE [ret |-> "SUCCESS", bytes |-> r.bytes \o <<param>>]

\* sendRawData(data, length)
SendRawData(initialized, data, length) ==
    IF ~initialized
    THEN [ret |-> "NOT_INITIALIZED", bytes |-> <<>>]
    ELSE IF data = NullPtr \/ length = 0
    THEN [ret |-> "INVALID_PARAMETER", bytes |-> <<>>]
    ELSE [ret |-> "SUCCESS", bytes |-> SubSeq(data, 1, length)]

\* the outcome of initialize() on a core whose flag is `initialized`
InitializeOutcome(initialized) ==
    IF initialized
    THEN [ret |-> "SUCCESS", bytes |-> <<>>, initialized |-> TRUE]
    ELSE LET start == SendCommand(initialized, OP_START)
         IN  IF start.ret # "SUCCESS"
             THEN [ret |-> start.ret, bytes |-> start.bytes,
                   initialized |-> initialized]
             ELSE LET safe == SendCommand(initialized, OP_SAFE)
                  IN  IF safe.ret # "SUCCESS"
                      THEN [ret |-> safe.ret, bytes |-> start.bytes \o safe.bytes,
                            initialized |-> initialized]
                      ELSE [ret |-> "SUCCESS",
                            bytes |-> start.bytes \o safe.bytes,
                            initialized |-> TRUE]

Initialize ==
    /\ pc = "idle"
    /\ LET o == InitializeOutcome(_initialized)
       IN  /\ _initialized' = o.initialized
           /\ sent' = o.bytes
           /\ result' = o.ret
    /\ op' = "initialize"
    /\ UNCHANGED <<_streamingActive, _streamSensorList, _streamSensorCount,
                   _streamState, _streamBufferIndex, _expectedStreamSize,
                   _streamBuffer, rx, buffer, bufferSize, pc, erred, extVars,
                   wifi>>

(***************************************************************************)
(* The stream framer.                                                      *)
(***************************************************************************)
\* a checksum test that accepts every frame
ValidateAnyChecksum(data, dataSize, receivedChecksum) == data # NullPtr

\* validateStreamChecksum(data, dataSize, receivedChecksum)
ValidateStreamChecksum(data, dataSize, receivedChecksum) ==
    IF data = NullPtr THEN FALSE
    ELSE LET calculatedChecksum ==
                 (((STREAM_HEADER + dataSize + receivedChecksum) % 256)
                  + SumBytes(data, dataSize)) % 256
         IN  calculatedChecksum = 0

\* The framer's fields as one record; ret is "NONE" while the loop goes on.
Framer ==
    [state |-> _streamState, index |-> _streamBufferIndex,
     size |-> _expectedStreamSize, buf |-> _streamBuffer, ret |-> "NONE"]

\* one pass of the body of the while loop of readStreamData on `byte`
ProcessByte(fr, byte) ==
    CASE fr.state = "WAIT_HEADER" ->
           IF byte = STREAM_HEADER
           THEN [fr EXCEPT !.state = "WAIT_SIZE"]
           ELSE fr
      [] fr.state = "WAIT_SIZE" ->
           [fr EXCEPT !.size = byte, !.index = 0, !.state = "WAIT_CONTENT"]
      [] fr.state = "WAIT_CONTENT" ->
           IF fr.index < fr.size /\ fr.index < STREAM_BUFFER
           THEN [fr EXCEPT !.buf = [fr.buf EXCEPT ![fr.index + 1] = byte],
                           !.index = fr.index + 1,
                           !.state = IF fr.index + 1 >= fr.size
                                     THEN "WAIT_CHECKSUM"
                                     ELSE "WAIT_CONTENT"]
           ELSE [fr EXCEPT !.ret = "BUFFER_OVERFLOW"]
      [] fr.state = "WAIT_CHECKSUM" ->
           IF ValidateStreamChecksum(fr.buf, fr.size, byte)
           THEN [fr EXCEPT !.state = "END", !.ret = "SUCCESS"]
           ELSE [fr EXCEPT !.state = "WAIT_HEADER", !.ret = "CHECKSUM_ERROR"]
      [] OTHER -> fr

\* a fall-through that reports the error and leaves the parse state where the
\* loop left it
FallThroughKeepsState(fr) ==
    [fr EXCEPT !.ret = "COMMUNICATION_ERROR"]

\* the statements after the while loop of readStreamData
FallThrough(fr) ==
    [fr EXCEPT !.state = "WAIT_HEADER", !.ret = "COMMUNICATION_ERROR"]

\* the while loop has stopped: a return inside the body, or state END
Stopped(fr) == fr.ret # "NONE" \/ fr.state = "END"

RECURSIVE RunBytes(_, _, _, _)
\* the while loop of readStreamData over the unread bytes q[lo..hi], in order,
\* the range split in halves; next is the index of the first byte not read
RunBytes(fr, q, lo, hi) ==
    IF lo > hi \/ Stopped(fr) THEN [fr |-> fr, next |-> lo]
    ELSE IF lo = hi THEN [fr |-> ProcessByte(fr, q[lo]), next |-> lo + 1]
    ELSE LET mid == (lo + hi) \div 2
             a == RunBytes(fr, q, lo, mid)
         IN  IF Stopped(a.fr) THEN a ELSE RunBytes(a.fr, q, mid + 1, hi)

\* the while loop of readStreamData run to its return on the unread bytes q:
\* it leaves by a return of the body, or falls through when no byte is
\* available or the state is END
ProcessStream(fr, q) ==
    LET r == RunBytes(fr, q, 1, Len(q))
    IN  [fr |-> IF r.fr.ret # "NONE" THEN r.fr ELSE FallThrough(r.fr),
         rest |-> SubSeq(q, r.next, Len(q))]

\* the bytes readStreamData hands to the caller on SUCCESS
CopySize(fr, cap) == Min(fr.size, cap)

(***************************************************************************)
(* The robot: the bytes it delivers to the transport, a stray byte or a    *)
(* whole frame at a time.                                                  *)
(***************************************************************************)
\* the content byte of the frames the robot sends
ContentVal == 7

\* the stray bytes the robot may send outside a frame: an ordinary byte, and
\* the header value (the start of a frame whose rest comes too late)
StrayVals == {7, STREAM_HEADER}

\* the contents of the short frames, of every length up to MaxN
ShortContents == {Filled(n, ContentVal) : n \in 0..MaxN}

\* the contents of the long frames: one that fills the stream buffer, and
\* one that is a byte longer
LongContents == {Filled(n, ContentVal) : n \in {STREAM_BUFFER, STREAM_BUFFER + 1}}

\* the checksum byte that makes the frame of content C sum to 0 modulo 256
GoodChecksum(C) ==
    (256 - ((STREAM_HEADER + Len(C) + SumBytes(C, Len(C))) % 256)) % 256

\* the frame [19, N, C..., k]
Frame(C, k) == <<STREAM_HEADER, Len(C)>> \o C \o <<k>>

GoodFrames(Cs) == {Frame(C, GoodChecksum(C)) : C \in Cs}

BadFrames(Cs) == {Frame(C, (GoodChecksum(C) + 1) % 256) : C \in Cs}

Strays == {<<b>> : b \in StrayVals}

ShortChunks == Strays \cup GoodFrames(ShortContents) \cup BadFrames(ShortContents)

\* what becomes available on the transport during one readStreamData call:
\* nothing; a stray byte, a short frame with a good or a bad checksum, or a
\* long frame; or two of the short ones, the second right behind the first
Arrivals ==
    {<<>>} \cup ShortChunks \cup GoodFrames(LongContents)
    \cup {a \o b : a \in ShortChunks \ {<<STREAM_HEADER>>}, b \in ShortChunks}

\* the robot delivers further bytes once the driver has read the pending ones
ArrivalsAt(q) == IF q = <<>> THEN Arrivals ELSE {<<>>}

(***************************************************************************)
(* startStream, stopStream, readStreamData.                                *)
(***************************************************************************)
\* the sensor lists a caller passes to startStream
SensorLists == {NullPtr, <<7, 22>>, Filled(SENSOR_LIST + 1, 7)}

\* the capacities a caller passes in *bufferSize
Caps == {1, STREAM_BUFFER}

\* the errors readStreamData reports about the stream
FramingErrors ==
    {"TIMEOUT", "CHECKSUM_ERROR", "BUFFER_OVERFLOW", "COMMUNICATION_ERROR"}

\* a restart that sends no stop sequence
StopStreamOmitted == <<>>

\* stopStream() on an initialized core: the bytes written
StopStreamBytes == SendCommand1(TRUE, OP_STREAM, ZERO_BYTE).bytes

\* startStream(sensorList, sensorCount)
StartStreamCall(sensorList, sensorCount) ==
    /\ pc = "idle"
    /\ op' = "startStream"
    /\ IF ~_initialized
       THEN /\ result' = "NOT_INITIALIZED"
            /\ sent' = <<>>
            /\ UNCHANGED <<_streamingActive, _streamSensorList,
                           _streamSensorCount, _streamState,
                           _streamBufferIndex, erred>>
       ELSE IF sensorList = NullPtr \/ sensorCount = 0
                 \/ sensorCount > SENSOR_LIST
       THEN /\ result' = "INVALID_PARAMETER"
            /\ sent' = <<>>
            /\ UNCHANGED <<_streamingActive, _streamSensorList,
                           _streamSensorCount, _streamState,
                           _streamBufferIndex, erred>>
       ELSE LET stop == IF _streamingActive THEN StopStreamBytes ELSE <<>>
                cmd == SendCommand1(_initialized, OP_STREAM, sensorCount)
                raw == SendRawData(_initialized, sensorList, sensorCount)
            IN  /\ sent' = stop \o cmd.bytes \o raw.bytes
                /\ result' = "SUCCESS"
                /\ _streamSensorCount' = sensorCount
                /\ _streamSensorList' =
                       Memcpy(_streamSensorList, sensorList, sensorCount)
                /\ _streamingActive' = TRUE
                /\ _streamState' = "WAIT_HEADER"
                /\ _streamBufferIndex' = 0
                /\ erred' = FALSE
    /\ UNCHANGED <<_initialized, _expectedStreamSize, _streamBuffer, rx, buffer,
                   bufferSize, pc, extVars, wifi>>

StartStream ==
    \E sensorList \in SensorLists : \E sensorCount \in {0, Len(sensorList)} :
        StartStreamCall(sensorList, sensorCount)

\* the lists and counts of the start/stop protocol: also a list of the largest
\* size and a count below the length of the list
ProtocolLists == SensorLists \cup {<<8>>, <<22, 7, 25>>, Filled(SENSOR_LIST, 22)}

ProtocolCounts(sensorList) == {0, 1, Len(sensorList)}

StartStreamOfAny ==
    \E sensorList \in ProtocolLists : \E sensorCount \in ProtocolCounts(sensorList) :
        StartStreamCall(sensorList, sensorCount)

StopStream ==
    /\ pc = "idle"
    /\ op' = "stopStream"
    /\ IF ~_initialized
       THEN /\ result' = "NOT_INITIALIZED"
            /\ sent' = <<>>
            /\ UNCHANGED <<_streamingActive, _streamSensorCount, _streamState,
                           _streamBufferIndex, erred>>
       ELSE /\ sent' = SendCommand1(_initialized, OP_STREAM, ZERO_BYTE).bytes
            /\ result' = "SUCCESS"
            /\ _streamingActive' = FALSE
            /\ _streamSensorCount' = 0
            /\ _streamState' = "WAIT_HEADER"
            /\ _streamBufferIndex' = 0
            /\ erred' = FALSE
    /\ UNCHANGED <<_initialized, _streamSensorList, _expectedStreamSize,
                   _streamBuffer, rx, buffer, bufferSize, pc, extVars, wifi>>

\* readStreamData returns `code` before it touches the transport or the framer
ReadRefused(code) ==
    /\ result' = code
    /\ bufferSize' = Unwritten
    /\ buffer' = <<>>
    /\ UNCHANGED <<_streamState, _streamBufferIndex, _expectedStreamSize,
                   _streamBuffer, rx>>

\* readStreamData leaves its byte loop with the framer as in fr, whose ret is the
\* value returned, and the bytes `rest` unread
ReadReturns(fr, cap, rest) ==
    /\ result' = fr.ret
    /\ rx' = rest
    /\ _streamState' = fr.state
    /\ _streamBufferIndex' = fr.index
    /\ _expectedStreamSize' = fr.size
    /\ _streamBuffer' = fr.buf
    /\ bufferSize' = IF fr.ret = "SUCCESS" THEN CopySize(fr, cap) ELSE Unwritten
    /\ buffer' = IF fr.ret = "SUCCESS"
                 THEN SubSeq(fr.buf, 1, CopySize(fr, cap))
                 ELSE <<>>

\* readStreamData(buffer, &bufferSize) with *bufferSize = cap on entry; nonNull
\* says that neither pointer is null; arrive are the bytes the robot delivers
\* while the call waits and reads.  buffer' is the part of the caller's array
\* that memcpy wrote, bufferSize' the value the call stored in *bufferSize
\* (Unwritten when it stored none).
ReadStreamDataCall(cap, nonNull, arrive) ==
    /\ pc = "idle"
    /\ op' = "readStreamData"
    /\ IF ~_initialized THEN ReadRefused("NOT_INITIALIZED")
       ELSE IF ~_streamingActive THEN ReadRefused("COMMUNICATION_ERROR")
       ELSE IF ~nonNull THEN ReadRefused("INVALID_PARAMETER")
       ELSE IF rx \o arrive = <<>> THEN ReadRefused("TIMEOUT")
       ELSE LET r == ProcessStream(Framer, rx \o arrive)
            IN  ReadReturns(r.fr, cap, r.rest)
    /\ erred' = (erred \/ result' \in FramingErrors)
    /\ sent' = <<>>
    /\ UNCHANGED <<_initialized, _streamingActive, _streamSensorList,
                   _streamSensorCount, pc, extVars, wifi>>

ReadStreamData ==
    \E cap \in Caps, nonNull \in BOOLEAN, arrive \in ArrivalsAt(rx) :
        ReadStreamDataCall(cap, nonNull, arrive)

\* the runs of line noise ahead of a frame: no byte of them is the header
\* value
NoiseRuns ==
    {<<>>, <<7>>, <<STREAM_HEADER - 1, STREAM_HEADER + 1>>, <<0, 255, 7>>}

\* the contents of the frames that follow the noise: some hold the header
\* value as a content byte, and one fills the stream buffer
NoisyContents ==
    {<<7>>, <<STREAM_HEADER, 7>>, <<7, STREAM_HEADER, STREAM_HEADER>>,
     Filled(STREAM_BUFFER, 7)}

\* readStreamData with a run of noise and then a whole valid frame available
ReadAfterNoise ==
    /\ rx = <<>>
    /\ \E cap \in Caps, run \in NoiseRuns, C \in NoisyContents :
          ReadStreamDataCall(cap, TRUE, run \o Frame(C, GoodChecksum(C)))

(***************************************************************************)
(* readStreamData step by step: the wait for a first byte and the byte     *)
(* loop, one pass at a time, with the robot delivering bytes in between.   *)
(* While the call runs, pc is "wait" or "loop" and bufferSize holds the    *)
(* capacity the caller passed.                                             *)
(***************************************************************************)
ReadEnter ==
    /\ pc = "idle"
    /\ \E cap \in Caps, nonNull \in BOOLEAN :
         IF ~_initialized \/ ~_streamingActive \/ ~nonNull
         THEN /\ result' = IF ~_initialized THEN "NOT_INITIALIZED"
                           ELSE IF ~_streamingActive THEN "COMMUNICATION_ERROR"
                           ELSE "INVALID_PARAMETER"
              /\ op' = "readStreamData"
              /\ bufferSize' = Unwritten
              /\ erred' = (erred \/ result' \in FramingErrors)
              /\ UNCHANGED pc
         ELSE /\ pc' = "wait"
              /\ bufferSize' = cap
              /\ UNCHANGED <<op, result, erred>>
    /\ buffer' = <<>>
    /\ sent' = <<>>
    /\ UNCHANGED <<coreVars, rx, extVars, wifi>>

\* the loop  while (!_serial.available()) { if (millis() > timeout) return TIMEOUT; }
ReadWait ==
    /\ pc = "wait"
    /\ IF rx # <<>>
       THEN /\ pc' = "loop"
            /\ UNCHANGED <<op, result, erred, bufferSize>>
       ELSE /\ pc' = "idle"
            /\ op' = "readStreamData"
            /\ result' = "TIMEOUT"
            /\ erred' = TRUE
            /\ bufferSize' = Unwritten
    /\ UNCHANGED <<coreVars, rx, sent, buffer, extVars, wifi>>

\* one test of the condition of the byte loop and, if it holds, one pass of its body
ReadLoop ==
    /\ pc = "loop"
    /\ LET n == IF rx # <<>> /\ _streamState # "END"
                THEN ProcessByte(Framer, Head(rx))
                ELSE FallThrough(Framer)
           rest == IF rx # <<>> /\ _streamState # "END" THEN Tail(rx) ELSE rx
       IN  IF n.ret = "NONE"
           THEN /\ rx' = rest
                /\ _streamState' = n.state
                /\ _streamBufferIndex' = n.index
                /\ _expectedStreamSize' = n.size
                /\ _streamBuffer' = n.buf
                /\ UNCHANGED <<pc, op, result, erred, buffer, bufferSize>>
           ELSE /\ ReadReturns(n, bufferSize, rest)
                /\ pc' = "idle"
                /\ op' = "readStreamData"
                /\ erred' = (erred \/ n.ret \in FramingErrors)
    /\ UNCHANGED <<_initialized, _streamingActive, _streamSensorList,
                   _streamSensorCount, sent, extVars, wifi>>

\* the robot delivers an ordinary stray byte or a short frame once the pending
\* bytes are read, also while a call is in its loop
Arrive ==
    /\ rx = <<>>
    /\ \E chunk \in ShortChunks \ {<<STREAM_HEADER>>} : rx' = chunk
    /\ UNCHANGED <<coreVars, sent, buffer, bufferSize, pc, histVars, extVars,
                   wifi>>

(***************************************************************************)
(* SensorData and the decoder of a frame's content (RoombaSensors).        *)
(***************************************************************************)
\* SensorData::reset(): the value a constructed SensorData holds
ResetData ==
    [nextRefresh |-> 0, lastSuccessfulRefresh |-> 0, failedAttempts |-> 0,
     irOpcode |-> 0, songNumber |-> 0, ioStreamNumPackets |-> 0, mode |-> 0,
     chargingState |-> 0, infraredCharacterLeft |-> 0,
     infraredCharacterRight |-> 0, temperature |-> 0, voltage |-> 0,
     current |-> 0, batteryCapacity |-> 0, batteryCharge |-> 0,
     dirtDetect |-> 0, velocity |-> 0, rightVelocity |-> 0,
     leftVelocity |-> 0, radius |-> 0, leftEncoderCounts |-> 0,
     rightEncoderCounts |-> 0, leftMotorCurrent |-> 0,
     rightMotorCurrent |-> 0, mainBrushMotorCurrent |-> 0,
     sideBrushMotorCurrent |-> 0, wallSignal |-> 0, cliffLeftSignal |-> 0,
     cliffFrontLeftSignal |-> 0, cliffRightSignal |-> 0,
     cliffFrontRightSignal |-> 0, lightBumpLeftSignal |-> 0,
     lightBumpFrontLeftSignal |-> 0, lightBumpCenterLeftSignal |-> 0,
     lightBumpCenterRightSignal |-> 0, lightBumpFrontRightSignal |-> 0,
     lightBumpRightSignal |-> 0, wall |-> FALSE, virtualWall |-> FALSE,
     cliffLeft |-> FALSE, cliffFrontLeft |-> FALSE, cliffRight |-> FALSE,
     cliffFrontRight |-> FALSE, songPlaying |-> FALSE,
     lightBumperLeft |-> FALSE, lightBumperFrontLeft |-> FALSE,
     lightBumperCenterLeft |-> FALSE, lightBumperCenterRight |-> FALSE,
     lightBumperFrontRight |-> FALSE, lightBumperRight |-> FALSE,
     internalChargerAvailable |-> FALSE, homeBaseChargerAvailable |-> FALSE,
     stasisDisabled |-> FALSE, stasisToggling |-> FALSE,
     cleanButton |-> FALSE, spotButton |-> FALSE, dockButton |-> FALSE,
     minuteButton |-> FALSE, hourButton |-> FALSE, dayButton |-> FALSE,
     scheduleButton |-> FALSE, clockButton |-> FALSE,
     wheelRightOvercurrent |-> FALSE, wheelLeftOvercurrent |-> FALSE,
     mainBrushOvercurrent |-> FALSE, sideBrushOvercurrent |-> FALSE,
     vacuumOvercurrent |-> FALSE, bumpRight |-> FALSE, bumpLeft |-> FALSE,
     wheelDropRight |-> FALSE, wheelDropLeft |-> FALSE]

\* the three fields updateFromStream keeps about the refreshes
TimingFields == {"nextRefresh", "lastSuccessfulRefresh", "failedAttempts"}

\* the fields the decoder writes
SensorFields == DOMAIN ResetData \ TimingFields

\* value converted to int16_t, to int8_t
ToInt16(x) == LET m == x % 65536 IN IF m >= 32768 THEN m - 65536 ELSE m

ToInt8(x) == LET m == x % 256 IN IF m >= 128 THEN m - 256 ELSE m

\* buffer[index]; an index past the bytes the caller's array was given reads
\* whatever that memory holds, here junk
ByteAt(buf, index, junk) == IF index < Len(buf) THEN buf[index + 1] ELSE junk

\* parseOneByte, parseTwoBytes, parseTwoBytesUnsigned, parseBitFlags: the value
\* read and the index after it (uint8_t)
ParseOneByte(buf, index, junk) ==
    [value |-> ByteAt(buf, index, junk), index |-> (index + 1) % 256]

\* a two-byte read that keeps the unsigned value
ParseTwoBytesNoSign(buf, index, junk) ==
    [value |-> (ByteAt(buf, index, junk) * 256 + ByteAt(buf, index + 1, junk)) % 65536,
     index |-> (index + 2) % 256]

ParseTwoBytes(buf, index, junk) ==
    [value |-> ToInt16(ByteAt(buf, index, junk) * 256 + ByteAt(buf, index + 1, junk)),
     index |-> (index + 2) % 256]

\* a two-byte read that takes the low byte first
ParseTwoBytesLowFirst(buf, index, junk) ==
    [value |-> ByteAt(buf, index, junk) + ByteAt(buf, index + 1, junk) * 256,
     index |-> (index + 2) % 256]

ParseTwoBytesUnsigned(buf, index, junk) ==
    [value |-> (ByteAt(buf, index, junk) * 256 + ByteAt(buf, index + 1, junk)) % 65536,
     index |-> (index + 2) % 256]

\* an unpacking that takes the most significant bit first
ParseBitFlagsHighFirst(buf, index, junk) ==
    LET byte == ByteAt(buf, index, junk)
    IN  [value |-> [i \in 0..7 |-> (byte \div (2 ^ (7 - i))) % 2 = 1],
         index |-> (index + 1) % 256]

ParseBitFlags(buf, index, junk) ==
    LET byte == ByteAt(buf, index, junk)
    IN  [value |-> [i \in 0..7 |-> (byte \div (2 ^ i)) % 2 = 1],
         index |-> (index + 1) % 256]

\* the case of the switch of parseSensorPacket for a packet ID: how the value
\* is read and the fields it is stored in ("none": the default case)
DecodeRule(id) ==
    CASE id = 35 -> [kind |-> "u8", fields |-> <<"mode">>]
      [] id = 38 -> [kind |-> "u8", fields |-> <<"ioStreamNumPackets">>]
      [] id = 36 -> [kind |-> "u8", fields |-> <<"songNumber">>]
      [] id = 17 -> [kind |-> "u8", fields |-> <<"irOpcode">>]
      [] id = 52 -> [kind |-> "u8", fields |-> <<"infraredCharacterLeft">>]
      [] id = 53 -> [kind |-> "u8", fields |-> <<"infraredCharacterRight">>]
      [] id = 15 -> [kind |-> "u8", fields |-> <<"dirtDetect">>]
      [] id = 21 -> [kind |-> "u8", fields |-> <<"chargingState">>]
      [] id = 22 -> [kind |-> "u16", fields |-> <<"voltage">>]
      [] id = 23 -> [kind |-> "i16", fields |-> <<"current">>]
      [] id = 39 -> [kind |-> "i16", fields |-> <<"velocity">>]
      [] id = 54 -> [kind |-> "i16", fields |-> <<"leftMotorCurrent">>]
      [] id = 55 -> [kind |-> "i16", fields |-> <<"rightMotorCurrent">>]
      [] id = 56 -> [kind |-> "i16", fields |-> <<"mainBrushMotorCurrent">>]
      [] id = 57 -> [kind |-> "i16", fields |-> <<"sideBrushMotorCurrent">>]
      [] id = 41 -> [kind |-> "i16", fields |-> <<"rightVelocity">>]
      [] id = 42 -> [kind |-> "i16", fields |-> <<"leftVelocity">>]
      [] id = 40 -> [kind |-> "i16", fields |-> <<"radius">>]
      [] id = 27 -> [kind |-> "u16", fields |-> <<"wallSignal">>]
      [] id = 28 -> [kind |-> "u16", fields |-> <<"cliffLeftSignal">>]
      [] id = 29 -> [kind |-> "u16", fields |-> <<"cliffFrontLeftSignal">>]
      [] id = 31 -> [kind |-> "u16", fields |-> <<"cliffRightSignal">>]
      [] id = 30 -> [kind |-> "u16", fields |-> <<"cliffFrontRightSignal">>]
      [] id = 46 -> [kind |-> "u16", fields |-> <<"lightBumpLeftSignal">>]
      [] id = 47 -> [kind |-> "u16", fields |-> <<"lightBumpFrontLeftSignal">>]
      [] id = 48 ->
           [kind |-> "u16",
            fields |-> <<"lightBumpCenterLeftSignal">>]
      [] id = 49 ->
           [kind |-> "u16",
            fields |-> <<"lightBumpCenterRightSignal">>]
      [] id = 50 ->
           [kind |-> "u16",
            fields |-> <<"lightBumpFrontRightSignal">>]
      [] id = 51 -> [kind |-> "u16", fields |-> <<"lightBumpRightSignal">>]
      [] id = 24 -> [kind |-> "i8", fields |-> <<"temperature">>]
      [] id = 25 -> [kind |-> "u16", fields |-> <<"batteryCharge">>]
      [] id = 43 -> [kind |-> "u16", fields |-> <<"leftEncoderCounts">>]
      [] id = 44 -> [kind |-> "u16", fields |-> <<"rightEncoderCounts">>]
      [] id = 26 -> [kind |-> "u16", fields |-> <<"batteryCapacity">>]
      [] id = 8 -> [kind |-> "bool", fields |-> <<"wall">>]
      [] id = 37 -> [kind |-> "bool", fields |-> <<"songPlaying">>]
      [] id = 13 -> [kind |-> "bool", fields |-> <<"virtualWall">>]
      [] id = 9 -> [kind |-> "bool", fields |-> <<"cliffLeft">>]
      [] id = 10 -> [kind |-> "bool", fields |-> <<"cliffFrontLeft">>]
      [] id = 12 -> [kind |-> "bool", fields |-> <<"cliffRight">>]
      [] id = 11 -> [kind |-> "bool", fields |-> <<"cliffFrontRight">>]
      [] id = 7 ->
           [kind |-> "bits",
            fields |-> <<"bumpRight", "bumpLeft",
                         "wheelDropRight", "wheelDropLeft">>]
      [] id = 14 ->
           [kind |-> "bits",
            fields |-> <<"sideBrushOvercurrent", "vacuumOvercurrent",
                         "mainBrushOvercurrent", "wheelRightOvercurrent",
                         "wheelLeftOvercurrent">>]
      [] id = 18 ->
           [kind |-> "bits",
            fields |-> <<"cleanButton", "spotButton",
                         "dockButton", "minuteButton",
                         "hourButton", "dayButton",
                         "scheduleButton", "clockButton">>]
      [] id = 45 ->
           [kind |-> "bits",
            fields |-> <<"lightBumperLeft", "lightBumperFrontLeft",
                         "lightBumperCenterLeft", "lightBumperCenterRight",
                         "lightBumperFrontRight", "lightBumperRight">>]
      [] id = 34 ->
           [kind |-> "bits",
            fields |-> <<"internalChargerAvailable", "homeBaseChargerAvailable">>]
      [] id = 58 ->
           [kind |-> "bits",
            fields |-> <<"stasisToggling", "stasisDisabled">>]
      [] OTHER -> [kind |-> "none", fields |-> <<>>]

\* the packet IDs parseSensorPacket has a case for
RuleIds == {id \in 0..255 : DecodeRule(id).kind # "none"}

\* the value bytes the case of parseSensorPacket for a packet ID reads
ValueWidth(id) ==
    CASE DecodeRule(id).kind \in {"u16", "i16"} -> 2
      [] DecodeRule(id).kind = "none" -> 0
      [] OTHER -> 1

RECURSIVE SetFlags(_, _, _, _)
\* sensorData.f = bitFlags[i] for the fields f of a bit-flag packet, from the i-th
SetFlags(sd, flds, flags, i) ==
    IF i > Len(flds) THEN sd
    ELSE SetFlags([sd EXCEPT ![flds[i]] = flags[i - 1]], flds, flags, i + 1)

\* parseSensorPacket(packetId, buffer, index, sensorData): the value returned,
\* the index and the SensorData it leaves
ParseSensorPacket(packetId, buf, index, sd, junk) ==
    LET rule == DecodeRule(packetId)
        f == rule.fields[1]
        one == ParseOneByte(buf, index, junk)
        two == ParseTwoBytes(buf, index, junk)
        twoU == ParseTwoBytesUnsigned(buf, index, junk)
        bits == ParseBitFlags(buf, index, junk)
    IN  CASE rule.kind = "u8" ->
               [ret |-> "SUCCESS", index |-> one.index,
                sd |-> [sd EXCEPT ![f] = one.value]]
          [] rule.kind = "i8" ->
               [ret |-> "SUCCESS", index |-> one.index,
                sd |-> [sd EXCEPT ![f] = ToInt8(one.value)]]
          [] rule.kind = "bool" ->
               [ret |-> "SUCCESS", index |-> one.index,
                sd |-> [sd EXCEPT ![f] = (one.value # 0)]]
          [] rule.kind = "u16" ->
               [ret |-> "SUCCESS", index |-> twoU.index,
                sd |-> [sd EXCEPT ![f] = twoU.value]]
          [] rule.kind = "i16" ->
               [ret |-> "SUCCESS", index |-> two.index,
                sd |-> [sd EXCEPT ![f] = two.value]]
          [] rule.kind = "bits" ->
               [ret |-> "SUCCESS", index |-> bits.index,
                sd |-> SetFlags(sd, rule.fields, bits.value, 1)]
          [] OTHER -> [ret |-> "INVALID_PARAMETER", index |-> index, sd |-> sd]

RECURSIVE ParseLoopGoesOn(_, _, _, _, _)
\* a loop that skips a packet ID it has no rule for and decodes on
ParseLoopGoesOn(buf, size, index, sd, junk) ==
    IF index >= size THEN [ret |-> "SUCCESS", index |-> index, sd |-> sd]
    ELSE LET r == ParseSensorPacket(ByteAt(buf, index, junk), buf,
                                    (index + 1) % 256, sd, junk)
         IN  ParseLoopGoesOn(buf, size, r.index, r.sd, junk)

RECURSIVE ParseLoop(_, _, _, _, _)
\* the while loop of parseStreamBuffer from index on
ParseLoop(buf, size, index, sd, junk) ==
    IF index >= size THEN [ret |-> "SUCCESS", index |-> index, sd |-> sd]
    ELSE LET r == ParseSensorPacket(ByteAt(buf, index, junk), buf,
                                    (index + 1) % 256, sd, junk)
         IN  IF r.ret # "SUCCESS" THEN r
             ELSE ParseLoop(buf, size, r.index, r.sd, junk)

\* parseStreamBuffer(buffer, bufferSize, sensorData)
ParseStreamBuffer(buf, size, sd, junk) ==
    IF buf = NullPtr \/ size = 0
    THEN [ret |-> "INVALID_PARAMETER", index |-> 0, sd |-> sd]
    ELSE ParseLoop(buf, size, 0, sd, junk)

(***************************************************************************)
(* Calls of the decoder: the content buffers and the SensorData a caller   *)
(* passes to parseStreamBuffer.                                            *)
(***************************************************************************)
\* a SensorData in which every field differs from what reset() stores
MarkedData ==
    [nextRefresh |-> 1, lastSuccessfulRefresh |-> 1, failedAttempts |-> 1,
     irOpcode |-> 1, songNumber |-> 1, ioStreamNumPackets |-> 1, mode |-> 1,
     chargingState |-> 1, infraredCharacterLeft |-> 1,
     infraredCharacterRight |-> 1, temperature |-> 1, voltage |-> 1,
     current |-> 1, batteryCapacity |-> 1, batteryCharge |-> 1,
     dirtDetect |-> 1, velocity |-> 1, rightVelocity |-> 1,
     leftVelocity |-> 1, radius |-> 1, leftEncoderCounts |-> 1,
     rightEncoderCounts |-> 1, leftMotorCurrent |-> 1,
     rightMotorCurrent |-> 1, mainBrushMotorCurrent |-> 1,
     sideBrushMotorCurrent |-> 1, wallSignal |-> 1, cliffLeftSignal |-> 1,
     cliffFrontLeftSignal |-> 1, cliffRightSignal |-> 1,
     cliffFrontRightSignal |-> 1, lightBumpLeftSignal |-> 1,
     lightBumpFrontLeftSignal |-> 1, lightBumpCenterLeftSignal |-> 1,
     lightBumpCenterRightSignal |-> 1, lightBumpFrontRightSignal |-> 1,
     lightBumpRightSignal |-> 1, wall |-> TRUE, virtualWall |-> TRUE,
     cliffLeft |-> TRUE, cliffFrontLeft |-> TRUE, cliffRight |-> TRUE,
     cliffFrontRight |-> TRUE, songPlaying |-> TRUE,
     lightBumperLeft |-> TRUE, lightBumperFrontLeft |-> TRUE,
     lightBumperCenterLeft |-> TRUE, lightBumperCenterRight |-> TRUE,
     lightBumperFrontRight |-> TRUE, lightBumperRight |-> TRUE,
     internalChargerAvailable |-> TRUE, homeBaseChargerAvailable |-> TRUE,
     stasisDisabled |-> TRUE, stasisToggling |-> TRUE, cleanButton |-> TRUE,
     spotButton |-> TRUE, dockButton |-> TRUE, minuteButton |-> TRUE,
     hourButton |-> TRUE, dayButton |-> TRUE, scheduleButton |-> TRUE,
     clockButton |-> TRUE, wheelRightOvercurrent |-> TRUE,
     wheelLeftOvercurrent |-> TRUE, mainBrushOvercurrent |-> TRUE,
     sideBrushOvercurrent |-> TRUE, vacuumOvercurrent |-> TRUE,
     bumpRight |-> TRUE, bumpLeft |-> TRUE, wheelDropRight |-> TRUE,
     wheelDropLeft |-> TRUE]

\* the values a record of each kind carries (a flag as 0 or 1)
KindValues(kind) ==
    CASE kind = "u8" -> {0, 1, 127, 128, 255}
      [] kind = "i8" -> {0 - 128, 0 - 1, 0, 1, 127}
      [] kind = "bool" -> {0, 1}
      [] kind = "bits" -> {0, 1, 5, 10, 15, 128, 255}
      [] kind = "u16" -> {0, 1, 255, 256, 32767, 32768, 65535}
      [] kind = "i16" -> {0 - 32768, 0 - 256, 0 - 1, 0, 1, 255, 32767}
      [] OTHER -> {}

\* the value bytes of a record on the wire: 16-bit values high byte first,
\* negative values in two's complement
Encode(kind, value) ==
    CASE kind \in {"u8", "bits", "bool"} -> <<value>>
      [] kind = "i8" -> <<value % 256>>
      [] kind \in {"u16", "i16"} ->
           <<(value % 65536) \div 256, (value % 65536) % 256>>

\* the packet IDs of SensorPacket that name one sensor
PacketIds == 7..58

\* the kinds a record of a packet ID can have: the kind of its decode rule, or
\* for an ID without a rule a one-byte or a two-byte value
KindsOf(id) ==
    IF id \in RuleIds THEN {DecodeRule(id).kind} ELSE {"u8", "u16"}

\* the (packet_id, value) records
Records ==
    {[id |-> id, kind |-> kind, value |-> value] :
        id \in PacketIds, kind \in {"u8", "i8", "bool", "bits", "u16", "i16"},
        value \in {0 - 32768, 0 - 256, 0 - 128, 0 - 1, 0, 1, 5, 10, 15, 127,
                   128, 255, 256, 32767, 32768, 65535}}

WellFormed(rec) == rec.kind \in KindsOf(rec.id) /\ rec.value \in KindValues(rec.kind)

EncodeRecord(rec) == <<rec.id>> \o Encode(rec.kind, rec.value)

\* one record of each kind, to stand before or after another record
LeadRecords ==
    {[id |-> 35, kind |-> "u8", value |-> 255],
     [id |-> 24, kind |-> "i8", value |-> 0 - 1],
     [id |-> 8, kind |-> "bool", value |-> 1],
     [id |-> 7, kind |-> "bits", value |-> 10],
     [id |-> 22, kind |-> "u16", value |-> 32768],
     [id |-> 23, kind |-> "i16", value |-> 0 - 256]}

\* the record sequences decoded: one record, or two records one of which is a
\* lead record
RecordLists ==
    LET wf == {rec \in Records : WellFormed(rec)}
    IN  {<<rec>> : rec \in wf}
        \cup {<<a, b>> : a \in LeadRecords, b \in wf}
        \cup {<<a, b>> : a \in wf, b \in LeadRecords}

RECURSIVE EncodeRecords(_)
EncodeRecords(recs) ==
    IF recs = <<>> THEN <<>>
    ELSE EncodeRecord(Head(recs)) \o EncodeRecords(Tail(recs))

\* bytes that are no packet ID with a decode rule
UnknownIds == {0, 6, 16, 19, 59, 255}

\* content that is not a sequence of whole records: an unknown ID alone, between
\* or after records, a record cut short, nothing at all
OddBuffers ==
    LET leads == {<<>>} \cup {EncodeRecord(rec) : rec \in LeadRecords}
        tails == leads \cup {<<1>>, <<22>>}
    IN  {a \o <<u>> \o b : a \in leads, u \in UnknownIds, b \in tails}
        \cup {<<>>, <<22>>, <<22, 1>>, <<7>>, <<7, 5, 23, 255>>}

\* the buffers decoded, each with the records it was built from (none for
\* the odd ones)
DecodeInputs ==
    {[recs |-> recs, buf |-> EncodeRecords(recs)] : recs \in RecordLists}
    \cup {[recs |-> <<>>, buf |-> buf] : buf \in OddBuffers}

\* what the caller's array holds past the content
JunkVals == {0, 255}

\* parseStreamBuffer(buf, Len(buf), sd0) on a caller's SensorData sd0
ParseStreamBufferCall(buf, sd0, junk) ==
    /\ pc = "idle"
    /\ LET r == ParseStreamBuffer(buf, Len(buf), sd0, junk)
       IN  /\ sensorData' = r.sd
           /\ result' = r.ret
    /\ op' = "parseStreamBuffer"
    /\ UNCHANGED <<coreVars, rx, sent, buffer, bufferSize, pc, erred,
                   sensors_streamingActive, now, wifi>>

\* the first call of a run: one buffer decoded into one caller's SensorData;
\* args' keeps the call's arguments and the records the buffer was built from
Decode ==
    /\ op = "none"
    /\ \E in \in DecodeInputs, sd0 \in {ResetData, MarkedData}, junk \in JunkVals :
          /\ ParseStreamBufferCall(in.buf, sd0, junk)
          /\ args' = <<in.buf, sd0, junk, in.recs>>

(***************************************************************************)
(* The sensor layer over the stream (RoombaSensors).                       *)
(***************************************************************************)
\* readStreamData(buffer, &bufferSize) with non-null arguments and
\* *bufferSize = cap, as a value: the code returned, the framer and the unread
\* bytes it leaves, the bytes written to buffer and the value of *bufferSize
ReadStreamDataOutcome(cap, arrive) ==
    LET refused(code) ==
            [ret |-> code, fr |-> Framer, rest |-> rx, buffer |-> <<>>,
             bufferSize |-> cap]
    IN  IF ~_initialized THEN refused("NOT_INITIALIZED")
        ELSE IF ~_streamingActive THEN refused("COMMUNICATION_ERROR")
        ELSE IF rx \o arrive = <<>> THEN refused("TIMEOUT")
        ELSE LET r == ProcessStream(Framer, rx \o arrive)
                 ok == r.fr.ret = "SUCCESS"
             IN  [ret |-> r.fr.ret, fr |-> r.fr, rest |-> r.rest,
                  buffer |-> IF ok THEN SubSeq(r.fr.buf, 1, CopySize(r.fr, cap))
                             ELSE <<>>,
                  bufferSize |-> IF ok THEN CopySize(r.fr, cap) ELSE cap]

\* the sensor lists passed to startStreaming
StreamingLists == {NullPtr, <<7, 22>>}

\* content of the frames of a stream of the packets 7 and 22, and content the
\* decoder refuses or that ends inside a record
SensorContents ==
    {<<7, 5, 22, 128, 1>>, <<7, 5, 16, 1>>, <<7, 10, 22, 1>>}

\* the bytes the robot delivers to one updateFromStream or readStreamData call
SensorArrivals ==
    {<<>>, <<STREAM_HEADER, 5, 7>>}
    \cup GoodFrames(SensorContents) \cup BadFrames({<<7, 5, 22, 1, 2>>})

SensorArrivalsAt(q) == IF q = <<>> THEN SensorArrivals ELSE {<<>>}

\* startStreaming(sensorList, sensorCount)
StartStreamingCall(sensorList, sensorCount) ==
    /\ pc = "idle"
    /\ op' = "startStreaming"
    /\ args' = <<sensorList, sensorCount>>
    /\ IF sensorList = NullPtr \/ sensorCount = 0 \/ sensorCount > SENSOR_LIST
       THEN /\ result' = "INVALID_PARAMETER"
            /\ sent' = <<>>
            /\ UNCHANGED <<_streamingActive, _streamSensorList,
                           _streamSensorCount, _streamState, _streamBufferIndex,
                           erred, sensors_streamingActive>>
       ELSE IF ~_initialized
       THEN /\ result' = "NOT_INITIALIZED"
            /\ sent' = <<>>
            /\ UNCHANGED <<_streamingActive, _streamSensorList,
                           _streamSensorCount, _streamState, _streamBufferIndex,
                           erred, sensors_streamingActive>>
       ELSE LET stop == IF _streamingActive THEN StopStreamBytes ELSE <<>>
                cmd == SendCommand1(_initialized, OP_STREAM, sensorCount)
                raw == SendRawData(_initialized, sensorList, sensorCount)
            IN  /\ sent' = stop \o cmd.bytes \o raw.bytes
                /\ result' = "SUCCESS"
                /\ _streamSensorCount' = sensorCount
                /\ _streamSensorList' =
                       Memcpy(_streamSensorList, sensorList, sensorCount)
                /\ _streamingActive' = TRUE
                /\ _streamState' = "WAIT_HEADER"
                /\ _streamBufferIndex' = 0
                /\ erred' = FALSE
                /\ sensors_streamingActive' = TRUE
    /\ UNCHANGED <<_initialized, _expectedStreamSize, _streamBuffer, rx, buffer,
                   bufferSize, pc, sensorData, now, wifi>>

StartStreaming ==
    \E sensorList \in StreamingLists : \E sensorCount \in {0, Len(sensorList)} :
        StartStreamingCall(sensorList, sensorCount)

\* stopStreaming()
StopStreaming ==
    /\ pc = "idle"
    /\ op' = "stopStreaming"
    /\ args' = <<>>
    /\ IF ~_initialized
       THEN /\ result' = "NOT_INITIALIZED"
            /\ sent' = <<>>
            /\ UNCHANGED <<_streamingActive, _streamSensorCount, _streamState,
                           _streamBufferIndex, erred, sensors_streamingActive>>
       ELSE /\ sent' = SendCommand1(_initialized, OP_STREAM, ZERO_BYTE).bytes
            /\ result' = "SUCCESS"
            /\ _streamingActive' = FALSE
            /\ _streamSensorCount' = 0
            /\ _streamState' = "WAIT_HEADER"
            /\ _streamBufferIndex' = 0
            /\ erred' = FALSE
            /\ sensors_streamingActive' = FALSE
    /\ UNCHANGED <<_initialized, _streamSensorList, _expectedStreamSize,
                   _streamBuffer, rx, buffer, bufferSize, pc, sensorData, now,
                   wifi>>

\* a throttle that lets every call read
NeverThrottled(time, sd) == FALSE

\* now < sensorData.nextRefresh: not time for a refresh yet
Throttled(time, sd) == time < sd.nextRefresh

\* an attempt that sets the next refresh time and counts nothing
AttemptedUncounted(sd, time) ==
    [sd EXCEPT !.nextRefresh = time + REFRESH_DELAY]

\* the accounting before the read: sensorData.nextRefresh = now +
\* _refreshInterval; sensorData.failedAttempts++ (a uint16_t)
Attempted(sd, time) ==
    [sd EXCEPT !.nextRefresh = time + REFRESH_DELAY,
               !.failedAttempts = (@ + 1) % 65536]

\* updateFromStream(sensorData) at the time now; arrive are the bytes the robot
\* delivers while the call waits and reads, junk what the local array holds
\* past the bytes readStreamData wrote
UpdateFromStreamCall(arrive, junk) ==
    /\ pc = "idle"
    /\ op' = "updateFromStream"
    /\ sent' = <<>>
    /\ IF ~sensors_streamingActive
       THEN /\ result' = "COMMUNICATION_ERROR"
            /\ UNCHANGED <<_streamState, _streamBufferIndex, _expectedStreamSize,
                           _streamBuffer, rx, buffer, bufferSize, erred,
                           sensorData>>
       ELSE IF Throttled(now, sensorData)
       THEN /\ result' = "SUCCESS"
            /\ UNCHANGED <<_streamState, _streamBufferIndex, _expectedStreamSize,
                           _streamBuffer, rx, buffer, bufferSize, erred,
                           sensorData>>
       ELSE LET sd1 == Attempted(sensorData, now)
                rd == ReadStreamDataOutcome(STREAM_BUFFER, arrive)
                parsed == ParseStreamBuffer(rd.buffer, rd.bufferSize, sd1, junk)
            IN  /\ rx' = rd.rest
                /\ _streamState' = rd.fr.state
                /\ _streamBufferIndex' = rd.fr.index
                /\ _expectedStreamSize' = rd.fr.size
                /\ _streamBuffer' = rd.fr.buf
                /\ buffer' = rd.buffer
                /\ bufferSize' = IF rd.ret = "SUCCESS" THEN rd.bufferSize
                                 ELSE Unwritten
                /\ erred' = (erred \/ rd.ret \in FramingErrors)
                /\ IF rd.ret # "SUCCESS"
                   THEN result' = rd.ret /\ sensorData' = sd1
                   ELSE /\ result' = parsed.ret
                        /\ sensorData' =
                             IF parsed.ret = "SUCCESS"
                             THEN [parsed.sd EXCEPT
                                      !.lastSuccessfulRefresh = now,
                                      !.failedAttempts = 0]
                             ELSE parsed.sd
    /\ UNCHANGED <<_initialized, _streamingActive, _streamSensorList,
                   _streamSensorCount, pc, sensors_streamingActive, now, wifi>>

UpdateFromStream ==
    \E arrive \in SensorArrivalsAt(rx), junk \in JunkVals :
        /\ UpdateFromStreamCall(arrive, junk)
        /\ args' = <<>>

\* the frame of a stream of the packets 7 and 22 with the bump and wheel-drop
\* byte b and the voltage bytes hi, lo
RoundTripFrame(b, hi, lo) == Frame(<<7, b, 22, hi, lo>>, GoodChecksum(<<7, b, 22, hi, lo>>))

\* the voltage bytes the robot sends in the round trip
VoltageBytes == {0, 1, 128, 255}

\* the updateFromStream call after startStreaming([7, 22]) succeeded, on a
\* SensorData as its constructor leaves it, the robot delivering one whole frame
RoundTrip ==
    /\ op = "startStreaming"
    /\ result = "SUCCESS"
    /\ sensorData = ResetData
    /\ \E b \in 0..255, hi \in VoltageBytes, lo \in VoltageBytes, junk \in JunkVals :
          /\ UpdateFromStreamCall(RoundTripFrame(b, hi, lo), junk)
          /\ args' = <<b, hi, lo>>

\* readStreamData called on the core directly, into an array of 100 bytes
ReadStreamDataDirect ==
    \E arrive \in SensorArrivalsAt(rx) :
        ReadStreamDataCall(STREAM_BUFFER, TRUE, arrive)

\* millis() advances
Tick ==
    /\ pc = "idle"
    /\ now + TickStep <= MaxNow
    /\ now' = now + TickStep
    /\ UNCHANGED <<coreVars, rx, sent, buffer, bufferSize, pc, histVars,
                   sensors_streamingActive, sensorData, args, wifi>>

(***************************************************************************)
(* The command encoder (RoombaCommands).  A command's bytes and result      *)
(* depend on its arguments and on the core's _initialized flag only.        *)
(***************************************************************************)
\* DriveRadius::STRAIGHT: the initializer 32768 converted to int16_t
STRAIGHT == ToInt16(32768)

\* sendCommand(opcode, params, paramCount)
SendCommandN(initialized, opcode, params, paramCount) ==
    LET r == SendCommand(initialized, opcode)
    IN  IF r.ret # "SUCCESS" THEN r
        ELSE [ret |-> "SUCCESS", bytes |-> r.bytes \o SubSeq(params, 1, paramCount)]

\* a range check of the upper limit only
IsAtMostForward(velocity) == velocity <= MAX_FORWARD

IsValidVelocity(velocity) == velocity >= MAX_BACKWARD /\ velocity <= MAX_FORWARD

IsValidRadius(radius) ==
    \/ (radius >= 0 - 2000 /\ radius <= 2000)
    \/ radius = STRAIGHT
    \/ radius = TURN_IN_PLACE_CW
    \/ radius = TURN_IN_PLACE_CCW

IsValidPWM(pwm) == pwm >= 0 - 255 /\ pwm <= 255

ClampVelocity(velocity) ==
    IF velocity > MAX_FORWARD THEN MAX_FORWARD
    ELSE IF velocity < MAX_BACKWARD THEN MAX_BACKWARD
    ELSE velocity

\* the values clampVelocity(abs(velocity)) can have.  abs(-32768) is 32768 as
\* an int, which wraps to -32768 when stored in the int16_t parameter and is
\* then clamped to MAX_BACKWARD; where int has 16 bits the negation overflows,
\* and a build that takes abs to be non-negative leaves it unclamped.
ClampedAbs(velocity) ==
    IF velocity = 0 - 32768
    THEN {ClampVelocity(ToInt16(32768)), ToInt16(32768)}
    ELSE {ClampVelocity(IF velocity < 0 THEN 0 - velocity ELSE velocity)}

\* a high byte taken of the magnitude of the value
HighByteOfMagnitude(value) == ((IF value < 0 THEN 0 - value ELSE value) \div 256) % 256

\* (value >> 8) & 0xFF and value & 0xFF of an int16_t
HighByte(value) == (value \div 256) % 256

LowByte(value) == value % 256

\* the four parameter bytes of the drive commands
DriveParams(first, second) ==
    <<HighByte(first), LowByte(first), HighByte(second), LowByte(second)>>

\* drive(velocity, radius): the bytes written and the value returned
DriveOutcome(initialized, velocity, radius) ==
    IF ~IsValidVelocity(velocity) \/ ~IsValidRadius(radius)
    THEN [ret |-> "INVALID_PARAMETER", bytes |-> <<>>]
    ELSE SendCommandN(initialized, OP_DRIVE, DriveParams(velocity, radius), 4)

DriveDirectOutcome(initialized, rightVelocity, leftVelocity) ==
    IF ~IsValidVelocity(rightVelocity) \/ ~IsValidVelocity(leftVelocity)
    THEN [ret |-> "INVALID_PARAMETER", bytes |-> <<>>]
    ELSE SendCommandN(initialized, OP_DRIVE_DIRECT,
                      DriveParams(rightVelocity, leftVelocity), 4)

DrivePWMOutcome(initialized, rightPWM, leftPWM) ==
    IF ~IsValidPWM(rightPWM) \/ ~IsValidPWM(leftPWM)
    THEN [ret |-> "INVALID_PARAMETER", bytes |-> <<>>]
    ELSE SendCommandN(initialized, OP_DRIVE_PWM, DriveParams(rightPWM, leftPWM), 4)

\* the motorBits of setMotors
MotorBits(sideBrush, vacuum, mainBrush, sideBrushDirection, mainBrushDirection) ==
    (IF sideBrush THEN 1 ELSE 0) + (IF vacuum THEN 2 ELSE 0)
    + (IF mainBrush THEN 4 ELSE 0) + (IF sideBrushDirection THEN 8 ELSE 0)
    + (IF mainBrushDirection THEN 16 ELSE 0)

\* the OI baud code of a baud rate, Unwritten for a rate without one
BaudCode(baudRate) ==
    CASE baudRate = 300 -> 0
      [] baudRate = 600 -> 1
      [] baudRate = 1200 -> 2
      [] baudRate = 2400 -> 3
      [] baudRate = 4800 -> 4
      [] baudRate = 9600 -> 5
      [] baudRate = 14400 -> 6
      [] baudRate = 19200 -> 7
      [] baudRate = 28800 -> 8
      [] baudRate = 38400 -> 9
      [] baudRate = 57600 -> 10
      [] baudRate = 115200 -> 11
      [] OTHER -> Unwritten

\* changeBaudRate(newBaudRate)
ChangeBaudRateOutcome(initialized, newBaudRate) ==
    IF ~initialized THEN [ret |-> "NOT_INITIALIZED", bytes |-> <<>>]
    ELSE IF BaudCode(newBaudRate) = Unwritten
    THEN [ret |-> "INVALID_PARAMETER", bytes |-> <<>>]
    ELSE SendCommand1(initialized, OP_BAUD, BaudCode(newBaudRate))

\* playSong(songNumber)
PlaySongOutcome(initialized, songNumber) ==
    IF songNumber > MAX_SONGS
    THEN [ret |-> "INVALID_PARAMETER", bytes |-> <<>>]
    ELSE SendCommand1(initialized, OP_PLAY, songNumber)

\* the int16_t arguments the application passes: the limits of the ranges, of
\* the type and of a byte
Velocities ==
    {0 - 32768, 0 - 32767, 0 - 501, 0 - 500, 0 - 499, 0 - 257, 0 - 256, 0 - 255,
     0 - 200, 0 - 1, 0, 1, 200, 255, 256, 257, 499, 500, 501, 600, 9000, 32767}

Radii ==
    {0 - 32768, 0 - 32767, 0 - 2001, 0 - 2000, 0 - 256, 0 - 1, 0, 1, 255, 500,
     2000, 2001, 32767}

\* the velocities passed to the convenience wrappers
WrapperVelocities ==
    {0 - 32768, 0 - 32767, 9000, 32767} \cup ((0 - 600)..600)

\* START, SAFE, FULL, POWER, SPOT, CLEAN, MAX_CLEAN, SEEK_DOCK
SimpleOpcodes == {OP_START, OP_SAFE, 132, 133, 134, 135, 136, 143}

BaudRates == {300, 19200, 115200, 12345}

\* one call of the encoder on a fresh object: the operation, its arguments, the
\* bytes it writes and the value it returns
Command(name, arguments, outcome) ==
    /\ pc = "idle"
    /\ op = "none"
    /\ op' = name
    /\ args' = arguments
    /\ sent' = outcome.bytes
    /\ result' = outcome.ret
    /\ UNCHANGED <<coreVars, rx, buffer, bufferSize, pc, erred,
                   sensors_streamingActive, sensorData, now, wifi>>

\* start(), safeMode(), fullMode(), powerDown(), startSpotCleaning(),
\* startCleaning(), startMaxCleaning(), seekDock()
SimpleCommand ==
    \E opcode \in SimpleOpcodes :
        Command("simple", <<opcode>>, SendCommand(_initialized, opcode))

ChangeBaudRate ==
    \E baudRate \in BaudRates :
        Command("changeBaudRate", <<baudRate>>,
                ChangeBaudRateOutcome(_initialized, baudRate))

SetMotors ==
    \E sideBrush \in BOOLEAN, vacuum \in BOOLEAN, mainBrush \in BOOLEAN,
       sideBrushDirection \in BOOLEAN, mainBrushDirection \in BOOLEAN :
        Command("setMotors",
                <<sideBrush, vacuum, mainBrush, sideBrushDirection,
                  mainBrushDirection>>,
                SendCommand1(_initialized, OP_MOTORS,
                             MotorBits(sideBrush, vacuum, mainBrush,
                                       sideBrushDirection, mainBrushDirection)))

PlaySong ==
    \E songNumber \in {0, MAX_SONGS, MAX_SONGS + 1, 255} :
        Command("playSong", <<songNumber>>,
                PlaySongOutcome(_initialized, songNumber))

Drive ==
    \E velocity \in Velocities, radius \in Radii :
        Command("drive", <<velocity, radius>>,
                DriveOutcome(_initialized, velocity, radius))

DriveDirect ==
    \E rightVelocity \in Velocities, leftVelocity \in Velocities :
        Command("driveDirect", <<rightVelocity, leftVelocity>>,
                DriveDirectOutcome(_initialized, rightVelocity, leftVelocity))

DrivePWM ==
    \E rightPWM \in Velocities, leftPWM \in Velocities :
        Command("drivePWM", <<rightPWM, leftPWM>>,
                DrivePWMOutcome(_initialized, rightPWM, leftPWM))

\* stop()
StopDriving == Command("stop", <<>>, DriveOutcome(_initialized, 0, 0))

MoveForward ==
    \E velocity \in WrapperVelocities : \E clamped \in ClampedAbs(velocity) :
        Command("moveForward", <<velocity>>,
                DriveOutcome(_initialized, clamped, STRAIGHT))

MoveBackward ==
    \E velocity \in WrapperVelocities : \E clamped \in ClampedAbs(velocity) :
        Command("moveBackward", <<velocity>>,
                DriveOutcome(_initialized, ToInt16(0 - clamped), STRAIGHT))

TurnLeft ==
    \E velocity \in WrapperVelocities : \E clamped \in ClampedAbs(velocity) :
        Command("turnLeft", <<velocity>>,
                DriveOutcome(_initialized, clamped, TURN_IN_PLACE_CCW))

TurnRight ==
    \E velocity \in WrapperVelocities : \E clamped \in ClampedAbs(velocity) :
        Command("turnRight", <<velocity>>,
                DriveOutcome(_initialized, clamped, TURN_IN_PLACE_CW))

(***************************************************************************)
(* Songs, the schedule and the clock (RoombaCommands).                     *)
(***************************************************************************)
\* a validity test of the note number alone
NoteNumberIsValid(note) ==
    note.noteNumber >= MIN_NOTE /\ note.noteNumber <= MAX_NOTE

\* Note::isValid
NoteIsValid(note) ==
    /\ (note.noteNumber >= MIN_NOTE /\ note.noteNumber <= MAX_NOTE)
    /\ (note.noteDuration > 0 /\ note.noteDuration <= MAX_DURATION)

\* Song::isValid
SongIsValid(song) ==
    IF song.songNumber > MAX_SONGS \/ song.songLength = 0
       \/ song.songLength > MAX_NOTES
    THEN FALSE
    ELSE \A i \in 0..(song.songLength - 1) : NoteIsValid(song.notes[i + 1])

\* the params array of defineSong: slot, length, then the notes
SongParams(song) ==
    [k \in 1..(2 + song.songLength * 2) |->
        IF k = 1 THEN song.songNumber
        ELSE IF k = 2 THEN song.songLength
        ELSE IF (k - 3) % 2 = 0 THEN song.notes[(k - 3) \div 2 + 1].noteNumber
        ELSE song.notes[(k - 3) \div 2 + 1].noteDuration]

\* defineSong(song)
DefineSongOutcome(initialized, song) ==
    IF ~SongIsValid(song)
    THEN [ret |-> "INVALID_PARAMETER", bytes |-> <<>>]
    ELSE SendCommandN(initialized, OP_SONG, SongParams(song),
                      2 + song.songLength * 2)

\* Song::addNote(note): the song it leaves and the value returned
AddNote(song, note) ==
    IF song.songLength >= MAX_NOTES \/ ~NoteIsValid(note)
    THEN [song |-> song, ok |-> FALSE]
    ELSE [song |-> [song EXCEPT !.notes[song.songLength + 1] = note,
                                !.songLength = song.songLength + 1],
          ok |-> TRUE]

\* Song(): no notes yet, the array holding default notes
EmptySong == [songNumber |-> 0, songLength |-> 0,
              notes |-> [i \in 1..MAX_NOTES |-> [noteNumber |-> 60,
                                                 noteDuration |-> 32]]]

RECURSIVE BeepLoop(_, _, _, _, _)
\* the for loop of beepSequence from i on: a beep, and a pause unless the beep
\* is the last; it breaks when addNote refuses a note
BeepLoop(song, i, count, beepNote, pauseNote) ==
    IF i >= count THEN song
    ELSE LET a == AddNote(song, beepNote)
             b == AddNote(a.song, pauseNote)
         IN  IF ~a.ok THEN song
             ELSE IF i < count - 1
             THEN IF ~b.ok THEN a.song
                  ELSE BeepLoop(b.song, i + 1, count, beepNote, pauseNote)
             ELSE BeepLoop(a.song, i + 1, count, beepNote, pauseNote)

\* beepSequence(count, frequency, duration, pause, songSlot)
BeepSequenceOutcome(initialized, count, frequency, duration, pause, songSlot) ==
    IF count = 0 \/ count > MAX_NOTES \div 2
    THEN [ret |-> "INVALID_PARAMETER", bytes |-> <<>>]
    ELSE LET beepSong ==
                 BeepLoop([EmptySong EXCEPT !.songNumber = songSlot], 0, count,
                          [noteNumber |-> frequency, noteDuration |-> duration],
                          [noteNumber |-> 31, noteDuration |-> pause])
             defined == DefineSongOutcome(initialized, beepSong)
             played == PlaySongOutcome(initialized, songSlot)
         IN  IF defined.ret # "SUCCESS" THEN defined
             ELSE [ret |-> played.ret, bytes |-> defined.bytes \o played.bytes]

\* the hour and minute fields of ScheduleData, in declaration order
ScheduleTimes ==
    <<"sunHour", "sunMinute", "monHour", "monMinute", "tueHour", "tueMinute",
      "wedHour", "wedMinute", "thuHour", "thuMinute", "friHour", "friMinute",
      "satHour", "satMinute">>

\* a validity test of the hours alone
ScheduleHoursAreValid(schedule) ==
    \A k \in 1..7 : schedule[ScheduleTimes[2 * k - 1]] < 24

\* ScheduleData::isValid
ScheduleIsValid(schedule) ==
    \A k \in 1..7 : /\ schedule[ScheduleTimes[2 * k - 1]] < 24
                    /\ schedule[ScheduleTimes[2 * k]] < 60

\* setSchedule(schedule): params[0..13] are the hours and minutes
SetScheduleOutcome(initialized, schedule) ==
    IF ~ScheduleIsValid(schedule)
    THEN [ret |-> "INVALID_PARAMETER", bytes |-> <<>>]
    ELSE SendCommandN(initialized, OP_SCHEDULE,
                      [k \in 1..14 |-> schedule[ScheduleTimes[k]]], 14)

\* setDayTime(day, hour, minute)
SetDayTimeOutcome(initialized, day, hour, minute) ==
    IF day > 6 \/ hour >= 24 \/ minute >= 60
    THEN [ret |-> "INVALID_PARAMETER", bytes |-> <<>>]
    ELSE SendCommandN(initialized, OP_SET_DAY_TIME, <<day, hour, minute>>, 3)

\* Note(): the default note
DefaultNote == [noteNumber |-> 60, noteDuration |-> 32]

\* notes at and beside the limits of Note::isValid
OddNotes ==
    {[noteNumber |-> n, noteDuration |-> d] :
        n \in {20, 30, MIN_NOTE, MAX_NOTE, 128, 255}, d \in {0, 1, MAX_DURATION}}

\* the songs passed to defineSong: default notes, one note of them replaced
Songs ==
    {[songNumber |-> number, songLength |-> length,
      notes |-> [i \in 1..MAX_NOTES |-> IF i = at THEN note ELSE DefaultNote]] :
        number \in {0, MAX_SONGS, MAX_SONGS + 1, 255},
        length \in {0, 1, 2, MAX_NOTES, MAX_NOTES + 1, 255},
        at \in {1, 2, 3, MAX_NOTES},
        note \in OddNotes \cup {DefaultNote}}

\* a valid schedule whose fields all differ
BaseSchedule ==
    [enabledDays |-> 42, sunHour |-> 1, sunMinute |-> 11, monHour |-> 2,
     monMinute |-> 12, tueHour |-> 3, tueMinute |-> 13, wedHour |-> 4,
     wedMinute |-> 14, thuHour |-> 5, thuMinute |-> 15, friHour |-> 6,
     friMinute |-> 16, satHour |-> 7, satMinute |-> 17]

\* the schedules passed to setSchedule: one field of the base schedule replaced
Schedules ==
    {[BaseSchedule EXCEPT ![f] = v] :
        f \in DOMAIN BaseSchedule, v \in {0, 23, 24, 59, 60, 127, 255}}

DefineSong ==
    \E song \in Songs :
        Command("defineSong", <<song>>, DefineSongOutcome(_initialized, song))

\* the arguments of beepSequence at and beside the limits
BeepCounts == {0, 1, 2, 3, MAX_NOTES \div 2, MAX_NOTES \div 2 + 1, 255}

BeepSequence ==
    \E count \in BeepCounts, frequency \in {30, MIN_NOTE, 72, MAX_NOTE, 128},
       duration \in {0, 1, MAX_DURATION}, pause \in {0, 1, MAX_DURATION},
       songSlot \in {0, MAX_SONGS, MAX_SONGS + 1} :
        Command("beepSequence", <<count, frequency, duration, pause, songSlot>>,
                BeepSequenceOutcome(_initialized, count, frequency, duration,
                                    pause, songSlot))

SetSchedule ==
    \E schedule \in Schedules :
        Command("setSchedule", <<schedule>>,
                SetScheduleOutcome(_initialized, schedule))

SetDayTime ==
    \E day \in {0, 6, 7, 255}, hour \in {0, 23, 24, 255}, minute \in {0, 59, 60, 255} :
        Command("setDayTime", <<day, hour, minute>>,
                SetDayTimeOutcome(_initialized, day, hour, minute))

(***************************************************************************)
(* Specifications.                                                         *)
(***************************************************************************)
(***************************************************************************)
(* ArduRoombaWiFi: the connection and its automatic reconnection.          *)
(***************************************************************************)
MAX_RECONNECT_ATTEMPTS == 5
RECONNECT_INTERVAL == 30000
\* WiFiConfig::connectTimeout as WiFiConfig() sets it, and the delay(1000) of
\* reconnect()
CONNECT_TIMEOUT == 30000
RECONNECT_DELAY == 1000

\* the object after its constructor.  enableAP is WiFiConfig::enableAP, link
\* says whether WiFi.status() is WL_CONNECTED once the radio has been started
\* and owed that a handleClient call has seen the connection lost with fewer
\* than MAX_RECONNECT_ATTEMPTS attempts made and no reconnect() has reached
\* WiFi.begin since
WiFiConstructed ==
    [_status |-> "DISCONNECTED", _serverRunning |-> FALSE,
     _lastConnectionAttempt |-> 0, _reconnectAttempts |-> 0,
     enableAP |-> TRUE, link |-> FALSE, owed |-> FALSE]

Idle ==
    /\ rx = <<>>
    /\ sent = <<>>
    /\ buffer = <<>>
    /\ bufferSize = Unwritten
    /\ pc = "idle"
    /\ op = "none"
    /\ result = "NONE"
    /\ erred = FALSE
    /\ sensors_streamingActive = FALSE
    /\ sensorData = ResetData
    /\ now = 0
    /\ args = <<>>
    /\ wifi = WiFiConstructed

\* the state initialize() is written to leave (ArduRoombaCore.cpp:85)
Initialized ==
    /\ _initialized = TRUE
    /\ _streamingActive = FALSE
    /\ _streamSensorList = Zeros(SENSOR_LIST)
    /\ _streamSensorCount = 0
    /\ _streamState = "WAIT_HEADER"
    /\ _streamBufferIndex = 0
    /\ _expectedStreamSize = 0
    /\ _streamBuffer = Zeros(STREAM_BUFFER)

\* A RoombaCore as its constructor leaves it, or one whose _initialized flag
\* is set.  The properties of the stream and of the commands are stated of an
\* initialized core; InitializeFromFresh shows what initialize() itself does
\* on a constructed one.
Init == (Constructed \/ Initialized) /\ Idle

Next == Initialize \/ StartStream \/ StopStream \/ ReadStreamData

Spec == Init /\ [][Next]_vars

NextLoop ==
    Initialize \/ StartStream \/ StopStream \/ ReadEnter \/ ReadWait \/ ReadLoop
    \/ Arrive

\* the driver's code runs on: a call that has started takes its next step
SpecLoop == Init /\ [][NextLoop]_vars /\ WF_vars(ReadWait) /\ WF_vars(ReadLoop)

NextSensors ==
    StartStreaming \/ StopStreaming \/ StopStream \/ UpdateFromStream
    \/ ReadStreamDataDirect \/ Tick

\* the sensor layer and the core under it, both reachable by the caller
SpecSensors == Init /\ [][NextSensors]_vars

\* the decoder alone, applied to the content buffers
SpecDecode == Init /\ [][Decode]_vars

\* The state after ManyFailures updateFromStream calls, one every REFRESH_DELAY
\* ms from the time 0 on, over a stream of the packets 7 and 22 started on a
\* robot that has sent nothing: every call timed out, counted one attempt and
\* set nextRefresh 40 ms ahead.
LongSilence ==
    /\ _initialized = TRUE
    /\ _streamingActive = TRUE
    /\ _streamSensorList = Memcpy(Zeros(SENSOR_LIST), <<7, 22>>, 2)
    /\ _streamSensorCount = 2
    /\ _streamState = "WAIT_HEADER"
    /\ _streamBufferIndex = 0
    /\ _expectedStreamSize = 0
    /\ _streamBuffer = Zeros(STREAM_BUFFER)
    /\ rx = <<>>
    /\ sent = <<>>
    /\ buffer = <<>>
    /\ bufferSize = Unwritten
    /\ pc = "idle"
    /\ op = "updateFromStream"
    /\ result = "TIMEOUT"
    /\ erred = FALSE
    /\ sensors_streamingActive = TRUE
    /\ sensorData = [ResetData EXCEPT
                        !.nextRefresh = ManyFailures * REFRESH_DELAY,
                        !.failedAttempts = ManyFailures % 65536]
    /\ now = ManyFailures * REFRESH_DELAY
    /\ args = <<>>
    /\ wifi = WiFiConstructed

\* millis() advances during the long run
TickOn ==
    /\ pc = "idle"
    /\ now + TickStep <= ManyFailures * REFRESH_DELAY + 2 * MaxNow
    /\ now' = now + TickStep
    /\ UNCHANGED <<coreVars, rx, sent, buffer, bufferSize, pc, histVars,
                   sensors_streamingActive, sensorData, args, wifi>>

\* the refresh attempts after a long silence of the robot
NextAttempts == UpdateFromStream \/ TickOn

SpecAttempts == LongSilence /\ [][NextAttempts]_vars

\* starting and stopping the stream
NextProtocol == StartStreamOfAny \/ StopStream

SpecProtocol == Init /\ [][NextProtocol]_vars

\* the packet IDs whose case of parseSensorPacket calls parseBitFlags
BitfieldIds == {id \in RuleIds : DecodeRule(id).kind = "bits"}

\* parseStreamBuffer on the one record [id, b] of a bitfield packet, for any
\* byte b
DecodeBits ==
    /\ op = "none"
    /\ \E id \in BitfieldIds, b \in 0..255, sd0 \in {ResetData, MarkedData},
          junk \in JunkVals :
          /\ ParseStreamBufferCall(<<id, b>>, sd0, junk)
          /\ args' = <<<<id, b>>, sd0, junk, <<>>>>

SpecBits == Init /\ [][DecodeBits]_vars

(***************************************************************************)
(* ArduRoombaWiFi: begin, startWebServer, handleClient and reconnect, the  *)
(* access point coming and going, and time.                                *)
(***************************************************************************)
\* the time WiFi.begin takes to report WL_CONNECTED when the access point answers
BeginWaits == {0, 5000}

\* begin(ssid, password, hostname) called at time t: up says whether the access
\* point answers within connectTimeout, wait how long it takes to.  The object
\* and millis() at the return, with the value returned
Begin(w, t, up, wait) ==
    IF up
    THEN [wifi |-> [w EXCEPT !._status = "CONNECTED", !.link = TRUE],
          now |-> t + wait, ret |-> "SUCCESS"]
    ELSE [wifi |-> [w EXCEPT !._status = IF w.enableAP THEN "AP_MODE"
                                         ELSE "FAILED",
                             !.link = FALSE],
          now |-> t + CONNECT_TIMEOUT,
          ret |-> IF w.enableAP THEN "SUCCESS" ELSE "COMMUNICATION_ERROR"]

\* reconnect() called at time t; begun says whether the call reached WiFi.begin
Reconnect(w, t, up, wait) ==
    IF t - w._lastConnectionAttempt < RECONNECT_INTERVAL
    THEN [wifi |-> w, now |-> t, ret |-> "TIMEOUT", begun |-> FALSE]
    ELSE LET w1 == [w EXCEPT !._lastConnectionAttempt = t,
                             !._reconnectAttempts = (@ + 1) % 256]
         IN  IF w1._reconnectAttempts > MAX_RECONNECT_ATTEMPTS
             THEN [wifi |-> w1, now |-> t, ret |-> "COMMUNICATION_ERROR",
                   begun |-> FALSE]
             ELSE LET b == Begin([w1 EXCEPT !.link = FALSE, !.owed = FALSE],
                                 t + RECONNECT_DELAY, up, wait)
                  IN  [wifi |-> b.wifi, now |-> b.now, ret |-> b.ret,
                       begun |-> TRUE]

\* handleClient() called at time t: the object and millis() at the return
HandleClientOutcome(w, t, up, wait) ==
    IF ~w._serverRunning THEN [wifi |-> w, now |-> t]
    ELSE IF w._status = "CONNECTED" /\ ~w.link
    THEN LET w1 == [w EXCEPT !._status = "DISCONNECTED"]
         IN  IF w1._reconnectAttempts < MAX_RECONNECT_ATTEMPTS
             THEN LET r == Reconnect(w1, t, up, wait)
                  IN  [wifi |-> [r.wifi EXCEPT !.owed = ~r.begun],
                       now |-> r.now]
             ELSE [wifi |-> w1, now |-> t]
    ELSE [wifi |-> w, now |-> t]

\* the time a step stands for and the time a run covers, in ms
WiFiStep == 10000

MaxMillis == 90000

\* a wireless operation: the core, the transport and the sensor layer stay as
\* they are
WiFiCall(name, outcome) ==
    /\ pc = "idle"
    /\ outcome.now <= MaxMillis
    /\ op' = name
    /\ wifi' = outcome.wifi
    /\ now' = outcome.now
    /\ UNCHANGED <<coreVars, rx, sent, buffer, bufferSize, pc, result, erred,
                   sensors_streamingActive, sensorData, args>>

\* setup() calls begin(config) first
WiFiBegin ==
    /\ op = "none"
    /\ \E enableAP \in BOOLEAN, up \in BOOLEAN, wait \in BeginWaits :
          WiFiCall("begin",
                   Begin([wifi EXCEPT !.enableAP = enableAP], now, up, wait))

\* startWebServer(port)
StartWebServer ==
    /\ op = "begin"
    /\ WiFiCall("startWebServer",
                [wifi |-> [wifi EXCEPT !._serverRunning = TRUE], now |-> now])

\* loop() calls handleClient()
HandleClient ==
    /\ op \in {"startWebServer", "handleClient"}
    /\ \E up \in BOOLEAN, wait \in BeginWaits :
          WiFiCall("handleClient", HandleClientOutcome(wifi, now, up, wait))

\* the access point goes away, or the radio finds it again by itself
LinkChanges ==
    /\ pc = "idle"
    /\ op \in {"begin", "startWebServer", "handleClient"}
    /\ wifi._status \in {"CONNECTED", "DISCONNECTED"}
    /\ wifi' = [wifi EXCEPT !.link = ~@]
    /\ UNCHANGED <<coreVars, rx, sent, buffer, bufferSize, pc, histVars,
                   sensors_streamingActive, sensorData, now, args>>

\* time passes
WiFiTick ==
    /\ pc = "idle"
    /\ now + WiFiStep <= MaxMillis
    /\ now' = now + WiFiStep
    /\ UNCHANGED <<coreVars, rx, sent, buffer, bufferSize, pc, histVars,
                   sensors_streamingActive, sensorData, args, wifi>>

NextWiFi ==
    WiFiBegin \/ StartWebServer \/ HandleClient \/ LinkChanges \/ WiFiTick

\* loop() keeps calling handleClient and time keeps passing
SpecWiFi ==
    Init /\ [][NextWiFi]_vars /\ WF_vars(HandleClient) /\ WF_vars(WiFiTick)

(***************************************************************************)
(* SensorData::getBatteryPercentage on the battery fields a frame stored.  *)
(***************************************************************************)
\* the widths of int of the boards the library is built for: 16 bits on AVR,
\* 32 bits on ESP32, ESP8266 and Uno R4
IntWidths == {16, 32}

\* getBatteryPercentage() of sd where int has intBits bits.  With a 16-bit
\* int the product batteryCharge * 100 is an unsigned int and wraps, and the
\* quotient is converted to int
GetBatteryPercentage(sd, intBits) ==
    IF sd.batteryCapacity = 0 THEN 0 - 1
    ELSE IF intBits = 16
    THEN ToInt16(((sd.batteryCharge * 100) % 65536) \div sd.batteryCapacity)
    ELSE (sd.batteryCharge * 100) \div sd.batteryCapacity

\* the charges and capacities the robot reports, in mAh
BatteryLevels == {0, 1, 655, 656, 2000, 2600, 2697, 32768, 65535}

\* parseStreamBuffer on the content [25, charge, 26, capacity] of a frame
DecodeBattery ==
    /\ op = "none"
    /\ \E charge \in BatteryLevels, capacity \in BatteryLevels, junk \in JunkVals :
          LET buf == <<25>> \o Encode("u16", charge) \o <<26>>
                     \o Encode("u16", capacity)
          IN  /\ ParseStreamBufferCall(buf, ResetData, junk)
              /\ args' = <<buf, ResetData, junk, <<>>>>

\* getBatteryPercentage() on the SensorData the decoder has filled; result' is
\* the int returned, args' the width of int of the build
GetBatteryPercentageCall ==
    /\ pc = "idle"
    /\ op = "parseStreamBuffer"
    /\ \E intBits \in IntWidths :
          /\ result' = GetBatteryPercentage(sensorData, intBits)
          /\ args' = <<intBits>>
    /\ op' = "getBatteryPercentage"
    /\ UNCHANGED <<coreVars, rx, sent, buffer, bufferSize, pc, erred,
                   sensors_streamingActive, sensorData, now, wifi>>

NextBattery == DecodeBattery \/ GetBatteryPercentageCall

SpecBattery == Init /\ [][NextBattery]_vars

(***************************************************************************)
(* The legacy class ArduRoomba: its framer _readStream and its decoder     *)
(* _parseStreamBuffer.                                                     *)
(***************************************************************************)
\* the locals of _readStream and _streamBufferCursor as the loop starts;
\* stored are the bytes written to _streamBuffer[0], _streamBuffer[1], ...
LegacyFramer ==
    [state |-> "WAIT_HEADER", cursor |-> 0, streamSize |-> 0, stored |-> <<>>,
     checksum |-> 0]

\* one pass of the while loop of _readStream on `chunk`
LegacyChunk(fr, chunk) ==
    LET after ==
          CASE fr.state = "WAIT_HEADER" ->
                 IF chunk = 19 THEN [fr EXCEPT !.state = "WAIT_SIZE"] ELSE fr
            [] fr.state = "WAIT_SIZE" ->
                 [fr EXCEPT !.streamSize = chunk, !.state = "WAIT_CONTENT"]
            [] fr.state = "WAIT_CONTENT" ->
                 IF fr.cursor < fr.streamSize
                 THEN [fr EXCEPT !.stored = Append(fr.stored, chunk),
                                 !.cursor = fr.cursor + 1]
                 ELSE [fr EXCEPT !.state = "WAIT_CHECKSUM"]
            [] fr.state = "WAIT_CHECKSUM" -> [fr EXCEPT !.state = "END"]
            [] OTHER -> fr
    IN  [after EXCEPT !.checksum = (fr.checksum + chunk) % 256]

RECURSIVE LegacyChunks(_, _)
\* the while loop of _readStream: every available byte, whatever the state
LegacyChunks(fr, q) ==
    IF q = <<>> THEN fr ELSE LegacyChunks(LegacyChunk(fr, Head(q)), Tail(q))

\* _readStream() with the bytes `avail` available: the value returned and the
\* content it leaves
LegacyReadStream(avail) ==
    IF avail = <<>> THEN [ret |-> FALSE, stored |-> <<>>, cursor |-> 0]
    ELSE LET fr == LegacyChunks(LegacyFramer, avail)
         IN  [ret |-> fr.state = "END" /\ fr.checksum = 0,
              stored |-> fr.stored, cursor |-> fr.cursor]

\* the contents of the frames sent to the legacy framer
LegacyContents ==
    {<<a>> : a \in {0, 7, STREAM_HEADER, 255}}
    \cup {<<a, b>> : a \in {7, STREAM_HEADER}, b \in {0, 7, 255}}
    \cup {<<22, 1, 2>>}

\* the bytes the robot may send behind a frame
TrailVals == {0, 7}

\* what is available to one _readStream call: nothing, or one frame with a
\* good or a bad checksum, alone or with one more byte behind it
LegacyArrivals ==
    {<<>>}
    \cup GoodFrames(LegacyContents) \cup BadFrames(LegacyContents)
    \cup {f \o <<t>> : f \in GoodFrames(LegacyContents) \cup BadFrames(LegacyContents),
                       t \in TrailVals}

\* a call of _readStream; args' keeps the bytes that were available and what
\* the call left in _streamBuffer and _streamBufferCursor
ReadStreamLegacy ==
    \E avail \in LegacyArrivals :
        LET r == LegacyReadStream(avail)
        IN  Command("_readStream", <<avail, r.stored, r.cursor>>,
                    [ret |-> IF r.ret THEN "true" ELSE "false", bytes |-> <<>>])

\* the case of the switch of _parseStreamBuffer for a packet ID: how the value
\* is read and the fields of *infos it is stored in, under the names the
\* source gives them
LegacyDecodeRule(id) ==
    CASE id = 35 -> [kind |-> "u8", fields |-> <<"mode">>]
      [] id = 38 -> [kind |-> "u8", fields |-> <<"ioStreamNumPackets">>]
      [] id = 36 -> [kind |-> "u8", fields |-> <<"songNumber">>]
      [] id = 17 -> [kind |-> "u8", fields |-> <<"irOpcode">>]
      [] id = 52 -> [kind |-> "u8", fields |-> <<"infraredCharacterLeft">>]
      [] id = 53 -> [kind |-> "u8", fields |-> <<"infraredCharacterRight">>]
      [] id = 15 -> [kind |-> "u8", fields |-> <<"dirtdetect">>]
      [] id = 21 -> [kind |-> "u8", fields |-> <<"chargingState">>]
      [] id = 22 -> [kind |-> "u16", fields |-> <<"voltage">>]
      [] id = 23 -> [kind |-> "i16", fields |-> <<"current">>]
      [] id = 39 -> [kind |-> "i16", fields |-> <<"velocity">>]
      [] id = 54 -> [kind |-> "i16", fields |-> <<"leftMotorCurrent">>]
      [] id = 55 -> [kind |-> "i16", fields |-> <<"rightMotorCurrent">>]
      [] id = 56 -> [kind |-> "i16", fields |-> <<"mainBrushMotorCurrent">>]
      [] id = 57 -> [kind |-> "i16", fields |-> <<"sideBrushMotorCurrent">>]
      [] id = 41 -> [kind |-> "i16", fields |-> <<"rightVelocity">>]
      [] id = 42 -> [kind |-> "i16", fields |-> <<"leftVelocity">>]
      [] id = 40 -> [kind |-> "i16", fields |-> <<"radius">>]
      [] id = 27 -> [kind |-> "u16", fields |-> <<"wallSignal">>]
      [] id = 28 -> [kind |-> "u16", fields |-> <<"cliffLeftSignal">>]
      [] id = 29 -> [kind |-> "u16", fields |-> <<"cliffFrontLeftSignal">>]
      [] id = 31 -> [kind |-> "u16", fields |-> <<"cliffRightSignal">>]
      [] id = 30 -> [kind |-> "u16", fields |-> <<"cliffFrontRightSignal">>]
      [] id = 46 -> [kind |-> "u16", fields |-> <<"lightBumpLeftSignal">>]
      [] id = 47 -> [kind |-> "u16", fields |-> <<"lightBumpFrontLeftSignal">>]
      [] id = 48 -> [kind |-> "u16", fields |-> <<"lightBumpCenterLeftSignal">>]
      [] id = 49 -> [kind |-> "u16", fields |-> <<"lightBumpCenterLeftSignal">>]
      [] id = 50 -> [kind |-> "u16", fields |-> <<"lightBumpFrontRightSignal">>]
      [] id = 51 -> [kind |-> "u16", fields |-> <<"lightBumpRightSignal">>]
      [] id = 24 -> [kind |-> "i8", fields |-> <<"temperature">>]
      [] id = 25 -> [kind |-> "u16", fields |-> <<"batteryCharge">>]
      [] id = 43 -> [kind |-> "u16", fields |-> <<"leftEncoderCounts">>]
      [] id = 44 -> [kind |-> "u16", fields |-> <<"rightEncoderCounts">>]
      [] id = 26 -> [kind |-> "u16", fields |-> <<"batteryCapacity">>]
      [] id = 8 -> [kind |-> "bool", fields |-> <<"wall">>]
      [] id = 37 -> [kind |-> "bool", fields |-> <<"songPlaying">>]
      [] id = 13 -> [kind |-> "bool", fields |-> <<"virtualWall">>]
      [] id = 9 -> [kind |-> "bool", fields |-> <<"cliffLeft">>]
      [] id = 10 -> [kind |-> "bool", fields |-> <<"cliffFrontLeft">>]
      [] id = 12 -> [kind |-> "bool", fields |-> <<"cliffRight">>]
      [] id = 11 -> [kind |-> "bool", fields |-> <<"cliffFrontRight">>]
      [] id = 7 ->
           [kind |-> "bits",
            fields |-> <<"bumpRight", "bumpLeft", "wheelDropRight", "wheelDropLeft">>]
      [] id = 14 ->
           [kind |-> "bits",
            fields |-> <<"sideBrushOvercurrent", "vacuumOvercurrent", "mainBrushOvercurrent", "wheelRightOvercurrent", "wheelLeftOvercurrent">>]
      [] id = 18 ->
           [kind |-> "bits",
            fields |-> <<"cleanButton", "spotButton", "dockButton", "minuteButton", "hourButton", "dayButton", "scheludeButton", "clockButton">>]
      [] id = 45 ->
           [kind |-> "bits",
            fields |-> <<"lightBumperLeft", "lightBumperFrontLeft", "lightBumperCenterLeft", "lightBumperCenterRight", "lightBumperFrontRight", "lightBumperRight">>]
      [] id = 34 ->
           [kind |-> "bits",
            fields |-> <<"internalChargerAvailable", "homeBaseChargerAvailable">>]
      [] id = 58 ->
           [kind |-> "bits",
            fields |-> <<"stasisToggling", "stasisDisabled">>]
      [] OTHER -> [kind |-> "none", fields |-> <<>>]

\* the packet IDs _parseStreamBuffer has a case for
LegacyRuleIds == {id \in 0..255 : LegacyDecodeRule(id).kind # "none"}

\* *infos on entry: the caller's record, and the two fields the legacy source
\* names differently
LegacyInfos(sd) ==
    [f \in DOMAIN sd \cup {"dirtdetect", "scheludeButton"} |->
        IF f \in DOMAIN sd THEN sd[f]
        ELSE IF f = "dirtdetect" THEN 0 ELSE FALSE]

\* _parseAndFillOneByteStreamBuffer: bytes[0..6] are the bits 0..6 of the
\* byte; the array has seven entries, so what the caller reads at [7] is
\* whatever lies behind it, here `past`
LegacyBits(byte, past) ==
    [i \in 0..7 |-> IF i < 7 THEN (byte \div (2 ^ i)) % 2 = 1 ELSE past]

\* one case of the switch of _parseStreamBuffer: the value returned by the
\* loop so far, the index and *infos
LegacyParsePacket(packetID, buf, i, infos, junk, past) ==
    LET rule == LegacyDecodeRule(packetID)
        f == rule.fields[1]
        one == ByteAt(buf, i, junk)
        two == ByteAt(buf, i, junk) * 256 + ByteAt(buf, i + 1, junk)
    IN  CASE rule.kind = "u8" ->
               [ret |-> TRUE, index |-> i + 1, infos |-> [infos EXCEPT ![f] = one]]
          [] rule.kind = "i8" ->
               [ret |-> TRUE, index |-> i + 1,
                infos |-> [infos EXCEPT ![f] = ToInt8(one)]]
          [] rule.kind = "bool" ->
               [ret |-> TRUE, index |-> i + 1,
                infos |-> [infos EXCEPT ![f] = (one # 0)]]
          [] rule.kind = "u16" ->
               [ret |-> TRUE, index |-> i + 2,
                infos |-> [infos EXCEPT ![f] = two % 65536]]
          [] rule.kind = "i16" ->
               [ret |-> TRUE, index |-> i + 2,
                infos |-> [infos EXCEPT ![f] = ToInt16(two)]]
          [] rule.kind = "bits" ->
               [ret |-> TRUE, index |-> i + 1,
                infos |-> SetFlags(infos, rule.fields, LegacyBits(one, past), 1)]
          [] OTHER -> [ret |-> FALSE, index |-> i, infos |-> infos]

RECURSIVE LegacyParseLoop(_, _, _, _, _, _)
\* the while loop of _parseStreamBuffer from i on
LegacyParseLoop(buf, len, i, infos, junk, past) ==
    IF i >= len THEN [ret |-> TRUE, index |-> i, infos |-> infos]
    ELSE LET r == LegacyParsePacket(ByteAt(buf, i, junk), buf, i + 1, infos,
                                    junk, past)
         IN  IF ~r.ret THEN r
             ELSE LegacyParseLoop(buf, len, r.index, r.infos, junk, past)

\* _parseStreamBuffer(packets, len, infos)
LegacyParseStreamBuffer(buf, len, sd, junk, past) ==
    LegacyParseLoop(buf, len, 0, LegacyInfos(sd), junk, past)

\* the content buffers decoded by both decoders: one record of a packet ID
\* 7..58, or a byte neither has a case for, then a byte
LegacyInputs ==
    {EncodeRecord(rec) : rec \in {r \in Records : WellFormed(r)}}
    \cup {<<u, 1>> : u \in UnknownIds}

\* a call of _parseStreamBuffer; args' keeps the buffer, the caller's record,
\* the byte behind the buffer and *infos as the call leaves it
ParseStreamBufferLegacy ==
    \E buf \in LegacyInputs, sd0 \in {ResetData, MarkedData}, junk \in JunkVals,
       past \in BOOLEAN :
        LET r == LegacyParseStreamBuffer(buf, Len(buf), sd0, junk, past)
        IN  Command("_parseStreamBuffer", <<buf, sd0, junk, r.infos>>,
                    [ret |-> IF r.ret THEN "true" ELSE "false", bytes |-> <<>>])

NextLegacy == ReadStreamLegacy \/ ParseStreamBufferLegacy

\* one call of the legacy class
SpecLegacy == Init /\ [][NextLegacy]_vars

(***************************************************************************)
(* The queries: requestSensor, requestSensors and the accessors built on   *)
(* them.  reply are the bytes the robot sends in answer; the transport     *)
(* holds no other byte.                                                    *)
(***************************************************************************)
\* readData(buffer, maxLength, timeout): the bytes it stores, `avail` being
\* the bytes that arrive before the timeout
ReadData(initialized, nonNull, maxLength, avail) ==
    IF ~initialized \/ ~nonNull \/ maxLength = 0 THEN <<>>
    ELSE SubSeq(avail, 1, Min(maxLength, Len(avail)))

\* the end of requestSensor and requestSensors: the bytes read are the data,
\* and none is a TIMEOUT
Answered(bytes, maxLength, reply) ==
    LET data == ReadData(TRUE, TRUE, maxLength, reply)
    IN  [ret |-> IF Len(data) > 0 THEN "SUCCESS" ELSE "TIMEOUT",
         bytes |-> bytes, data |-> data]

\* requestSensor(packetId, data, dataSize) with *dataSize = maxLength
RequestSensor(initialized, packetId, maxLength, reply) ==
    LET c == SendCommand1(initialized, OP_SENSORS, packetId)
    IN  IF c.ret # "SUCCESS" THEN [ret |-> c.ret, bytes |-> c.bytes, data |-> <<>>]
        ELSE Answered(c.bytes, maxLength, reply)

\* requestSensors(packetIds, packetCount, data, dataSize) with
\* *dataSize = maxLength
RequestSensors(initialized, packetIds, packetCount, maxLength, reply) ==
    IF packetIds = NullPtr \/ packetCount = 0
    THEN [ret |-> "INVALID_PARAMETER", bytes |-> <<>>, data |-> <<>>]
    ELSE LET c == SendCommand1(initialized, OP_QUERY_LIST, packetCount)
             d == SendRawData(initialized, packetIds, packetCount)
         IN  IF c.ret # "SUCCESS"
             THEN [ret |-> c.ret, bytes |-> c.bytes, data |-> <<>>]
             ELSE IF d.ret # "SUCCESS"
             THEN [ret |-> d.ret, bytes |-> c.bytes \o d.bytes, data |-> <<>>]
             ELSE Answered(c.bytes \o d.bytes, maxLength, reply)

\* batterySensors[] of getBatteryInfo
BatterySensors == <<22, 23, 25, 26, 24>>

\* the five outputs of getBatteryInfo
BatteryOutputs(voltage, current, charge, capacity, temperature) ==
    [voltage |-> voltage, current |-> current, charge |-> charge,
     capacity |-> capacity, temperature |-> temperature]

\* getBatteryInfo(voltage, current, charge, capacity, temperature): out are
\* the values the five references hold before the call
GetBatteryInfoOutcome(initialized, reply, out, junk) ==
    LET q == RequestSensors(initialized, BatterySensors, Len(BatterySensors),
                            STREAM_BUFFER, reply)
        p == ParseStreamBuffer(q.data, Len(q.data), ResetData, junk)
    IN  IF q.ret # "SUCCESS" THEN [ret |-> q.ret, bytes |-> q.bytes, out |-> out]
        ELSE [ret |-> p.ret, bytes |-> q.bytes,
              out |-> IF p.ret = "SUCCESS"
                      THEN BatteryOutputs(p.sd.voltage, p.sd.current,
                                          p.sd.batteryCharge,
                                          p.sd.batteryCapacity,
                                          p.sd.temperature)
                      ELSE out]

\* the battery states the robot reports
BatteryStates ==
    {BatteryOutputs(v, c, q, k, t) :
        v \in {16000, 5655, 1800}, c \in {0 - 300, 5911}, q \in {2000, 6168},
        k \in {2600}, t \in {25, 0 - 5}}

\* the answer to QUERY_LIST [22, 23, 25, 26, 24]: the nine value bytes of the
\* packets in request order, high byte first, without packet IDs
BatteryReply(b) ==
    Encode("u16", b.voltage) \o Encode("i16", b.current)
    \o Encode("u16", b.charge) \o Encode("u16", b.capacity)
    \o Encode("i8", b.temperature)

\* what the five references hold before a call
StaleBattery == BatteryOutputs(1, 1, 1, 1, 1)

\* getBatteryInfo answered in full, or not at all; args' keeps the state the
\* robot reported (none when it was silent), the outputs before the call and
\* the outputs after it
GetBatteryInfo ==
    \E junk \in JunkVals :
        \/ \E b \in BatteryStates :
              LET o == GetBatteryInfoOutcome(_initialized, BatteryReply(b),
                                             StaleBattery, junk)
              IN  Command("getBatteryInfo", <<<<b>>, StaleBattery, o.out>>, o)
        \/ LET o == GetBatteryInfoOutcome(_initialized, <<>>, StaleBattery, junk)
           IN  Command("getBatteryInfo", <<<<>>, StaleBattery, o.out>>, o)

\* the two outputs of getBumperSensors and of getWheelDropSensors
Sides(left, right) == [left |-> left, right |-> right]

\* an accessor that takes bit 0 for the left bumper and bit 1 for the right
GetBumperSensorsSwapped(initialized, reply, out) ==
    LET q == RequestSensor(initialized, 7, STREAM_BUFFER, reply)
    IN  IF q.ret # "SUCCESS" THEN [ret |-> q.ret, bytes |-> q.bytes, out |-> out]
        ELSE [ret |-> q.ret, bytes |-> q.bytes,
              out |-> IF Len(q.data) > 0
                      THEN Sides(q.data[1] % 2 # 0, (q.data[1] \div 2) % 2 # 0)
                      ELSE out]

\* getBumperSensors(left, right)
GetBumperSensorsOutcome(initialized, reply, out) ==
    LET q == RequestSensor(initialized, 7, STREAM_BUFFER, reply)
    IN  IF q.ret # "SUCCESS" THEN [ret |-> q.ret, bytes |-> q.bytes, out |-> out]
        ELSE [ret |-> q.ret, bytes |-> q.bytes,
              out |-> IF Len(q.data) > 0
                      THEN Sides((q.data[1] \div 2) % 2 # 0, q.data[1] % 2 # 0)
                      ELSE out]

\* getWheelDropSensors(left, right)
GetWheelDropSensorsOutcome(initialized, reply, out) ==
    LET q == RequestSensor(initialized, 7, STREAM_BUFFER, reply)
    IN  IF q.ret # "SUCCESS" THEN [ret |-> q.ret, bytes |-> q.bytes, out |-> out]
        ELSE [ret |-> q.ret, bytes |-> q.bytes,
              out |-> IF Len(q.data) > 0
                      THEN Sides((q.data[1] \div 8) % 2 # 0,
                                 (q.data[1] \div 4) % 2 # 0)
                      ELSE out]

\* the answers to SENSORS 7: one byte of any value, or none
BumpReplies == {<<>>} \cup {<<b>> : b \in 0..255}

\* what the two references hold before a call
StaleSides == {Sides(l, l) : l \in BOOLEAN}

GetBumperSensors ==
    \E reply \in BumpReplies, out \in StaleSides :
        LET o == GetBumperSensorsOutcome(_initialized, reply, out)
        IN  Command("getBumperSensors", <<reply, out, o.out>>, o)

GetWheelDropSensors ==
    \E reply \in BumpReplies, out \in StaleSides :
        LET o == GetWheelDropSensorsOutcome(_initialized, reply, out)
        IN  Command("getWheelDropSensors", <<reply, out, o.out>>, o)

NextQueries == GetBatteryInfo \/ GetBumperSensors \/ GetWheelDropSensors

\* one query, on a core that is or is not initialized
SpecQueries == Init /\ [][NextQueries]_vars

(***************************************************************************)
(* The sensor presets: getPresetSensorList and the frames of a stream      *)
(* started with the list it returns.                                       *)
(***************************************************************************)
Presets ==
    {"BASIC", "NAVIGATION", "SAFETY", "BATTERY", "BUTTONS", "LIGHT_BUMPERS",
     "ALL_SENSORS"}

\* a BUTTONS preset that asks for the unused packet 16 as well
PresetListWithUnused(preset) ==
    CASE preset = "BASIC" -> <<7, 8, 9, 10, 11, 12, 22, 25>>
      [] preset = "NAVIGATION" -> <<39, 40, 42, 41, 43, 44>>
      [] preset = "SAFETY" -> <<7, 9, 10, 11, 12, 14, 13, 8>>
      [] preset = "BATTERY" -> <<22, 23, 25, 26, 24, 21>>
      [] preset = "BUTTONS" -> <<18, 16, 17, 52, 53>>
      [] preset = "LIGHT_BUMPERS" -> <<45, 46, 47, 48, 49, 50, 51>>
      [] preset = "ALL_SENSORS" ->
           <<35, 24, 22, 25, 7, 8, 9, 10, 12, 11, 21, 23, 26, 18, 39>>

\* the packet IDs the case of a preset stores, in the order of the stores
PresetList(preset) ==
    CASE preset = "BASIC" -> <<7, 8, 9, 10, 11, 12, 22, 25>>
      [] preset = "NAVIGATION" -> <<39, 40, 42, 41, 43, 44>>
      [] preset = "SAFETY" -> <<7, 9, 10, 11, 12, 14, 13, 8>>
      [] preset = "BATTERY" -> <<22, 23, 25, 26, 24, 21>>
      [] preset = "BUTTONS" -> <<18, 17, 52, 53>>
      [] preset = "LIGHT_BUMPERS" -> <<45, 46, 47, 48, 49, 50, 51>>
      [] preset = "ALL_SENSORS" ->
           <<35, 24, 22, 25, 7, 8, 9, 10, 12, 11, 21, 23, 26, 18, 39>>

\* the maxSensors the case of a preset asks for before it stores its list
PresetRoom(preset) ==
    CASE preset = "BASIC" -> 6
      [] preset = "NAVIGATION" -> 5
      [] preset = "SAFETY" -> 8
      [] preset = "BATTERY" -> 5
      [] preset = "BUTTONS" -> 3
      [] preset = "LIGHT_BUMPERS" -> 7
      [] preset = "ALL_SENSORS" -> 15

\* getPresetSensorList(preset, sensorList, maxSensors): the entries it stores
\* in sensorList[0], sensorList[1], ...; the value returned is their number
GetPresetSensorList(preset, nonNull, maxSensors) ==
    IF ~nonNull \/ maxSensors = 0 THEN <<>>
    ELSE IF maxSensors >= PresetRoom(preset) THEN PresetList(preset)
    ELSE <<>>

\* the values of the uint8_t maxSensors
SensorCounts == 0..255

\* a call of getPresetSensorList: buffer' is what it stored through sensorList,
\* result' the count it returned, args' the preset and maxSensors
GetPresetSensorListCall ==
    /\ pc = "idle"
    /\ op = "none"
    /\ \E preset \in Presets, nonNull \in BOOLEAN, maxSensors \in SensorCounts :
          LET stored == GetPresetSensorList(preset, nonNull, maxSensors)
          IN  /\ buffer' = stored
              /\ result' = Len(stored)
              /\ args' = <<preset, maxSensors>>
    /\ op' = "getPresetSensorList"
    /\ UNCHANGED <<coreVars, rx, sent, bufferSize, pc, erred,
                   sensors_streamingActive, sensorData, now, wifi>>

\* the value bytes the robot sends in the frames of a preset stream
FillVals == {0, STREAM_HEADER, 128, 255}

RECURSIVE PresetFrame(_, _)
\* the content of a frame of the stream of the packets `list`: each packet ID
\* followed by the value bytes of its packet, all of them `fill`
PresetFrame(list, fill) ==
    IF list = <<>> THEN <<>>
    ELSE <<Head(list)>> \o Filled(ValueWidth(Head(list)), fill)
         \o PresetFrame(Tail(list), fill)

\* parseStreamBuffer on the content of a frame of the stream started with the
\* list getPresetSensorList has returned
DecodePresetFrame ==
    /\ op = "getPresetSensorList"
    /\ buffer # <<>>
    /\ \E fill \in FillVals, sd0 \in {ResetData, MarkedData}, junk \in JunkVals :
          /\ ParseStreamBufferCall(PresetFrame(buffer, fill), sd0, junk)
          /\ args' = <<PresetFrame(buffer, fill), sd0, junk, <<>>>>

NextPresets == GetPresetSensorListCall \/ DecodePresetFrame

SpecPresets == Init /\ [][NextPresets]_vars

NextNoise == StartStream \/ StopStream \/ ReadAfterNoise

\* the stream of a robot whose line carries noise between the frames
SpecNoise == Init /\ [][NextNoise]_vars

\* one command of the encoder, on a core that is or is not initialized
NextCommands ==
    \/ SimpleCommand \/ ChangeBaudRate \/ SetMotors \/ PlaySong
    \/ Drive \/ DriveDirect \/ DrivePWM \/ StopDriving
    \/ MoveForward \/ MoveBackward \/ TurnLeft \/ TurnRight
    \/ DefineSong \/ SetSchedule \/ SetDayTime \/ BeepSequence

SpecCommands == Init /\ [][NextCommands]_vars

\* startStreaming and the first read of the stream
NextRoundTrip == StartStreaming \/ RoundTrip

SpecRoundTrip == Init /\ [][NextRoundTrip]_vars

(***************************************************************************)
(* Properties.  A step of readStreamData with the arguments (cap, nonNull) *)
(* and the arrival `arrive` is a step that satisfies                       *)
(* ReadStreamDataCall(cap, nonNull, arrive); the bytes available to it are *)
(* rx \o arrive.                                                           *)
(***************************************************************************)
\* f is a whole frame [19, N, C..., k]
IsFrame(f) == Len(f) >= 3 /\ f[1] = STREAM_HEADER /\ Len(f) = f[2] + 3

FrameN(f) == f[2]

FrameContent(f) == SubSeq(f, 3, Len(f) - 1)

\* (19 + N + sum(C) + k) mod 256 = 0
FrameSumZero(f) == SumBytes(f, Len(f)) = 0

\* a frame the framer can hold whose checksum is right
IsValidFrame(f) ==
    IsFrame(f) /\ FrameN(f) >= 1 /\ FrameN(f) <= STREAM_BUFFER /\ FrameSumZero(f)

Streaming == _initialized /\ _streamingActive

FramerUnchanged ==
    UNCHANGED <<_streamState, _streamBufferIndex, _expectedStreamSize, _streamBuffer>>

\* C1: on a freshly constructed core (isInitialized() = false), initialize()
\* transmits exactly 128 then 131, returns SUCCESS and leaves isInitialized() true.
InitializeFromFresh ==
    [][(~_initialized /\ Initialize)
         => (sent' = <<OP_START, OP_SAFE>> /\ result' = "SUCCESS" /\ _initialized')]_vars

\* C2: with a stream active, the framer in WAIT_HEADER and a caller capacity >= N,
\* readStreamData given exactly the frame [19, N, C..., k], 0 <= N <= 100, returns
\* SUCCESS with content C if the frame sums to 0 modulo 256, else CHECKSUM_ERROR.
ChecksumSoundness ==
    [][\A cap \in Caps, f \in Arrivals :
          (/\ Streaming
           /\ _streamState = "WAIT_HEADER"
           /\ rx = <<>>
           /\ IsFrame(f) /\ FrameN(f) <= STREAM_BUFFER /\ cap >= FrameN(f)
           /\ ReadStreamDataCall(cap, TRUE, f))
          => IF FrameSumZero(f)
             THEN result' = "SUCCESS" /\ buffer' = FrameContent(f)
                  /\ bufferSize' = FrameN(f)
             ELSE result' = "CHECKSUM_ERROR"]_vars

\* C3: after a readStreamData call that returned SUCCESS, the next call, given
\* exactly one complete valid frame, returns SUCCESS with that frame's content.
NextFrameAfterSuccess ==
    [][\A cap \in Caps, f \in Arrivals :
          (/\ Streaming
           /\ op = "readStreamData" /\ result = "SUCCESS"
           /\ rx = <<>>
           /\ IsValidFrame(f) /\ cap >= FrameN(f)
           /\ ReadStreamDataCall(cap, TRUE, f))
          => (result' = "SUCCESS" /\ buffer' = FrameContent(f))]_vars

\* C4: once a readStreamData call has returned a framing error, with the stream
\* still active and no leftover byte on the transport, a call given a complete
\* valid frame returns SUCCESS.
FramingFailuresReset ==
    [][\A cap \in Caps, f \in Arrivals :
          (/\ Streaming
           /\ erred
           /\ rx = <<>>
           /\ IsValidFrame(f) /\ cap >= FrameN(f)
           /\ ReadStreamDataCall(cap, TRUE, f))
          => result' = "SUCCESS"]_vars

\* C5: upon return from every readStreamData call, whatever its result, and
\* after every startStream or stopStream, _streamState is WAIT_HEADER.
FramerInitialBetweenCalls ==
    (/\ op \in {"readStreamData", "startStream", "stopStream"}
     /\ result \in {"SUCCESS"} \cup FramingErrors)
    => _streamState = "WAIT_HEADER"

\* C6: for every caller capacity, readStreamData writes the caller's buffer and
\* size only when it returns SUCCESS, and then the bytes delivered are all N
\* content bytes of one frame, read from the transport, whose checksum is right.
NoPartialDelivery ==
    [][\A cap \in Caps, arrive \in ArrivalsAt(rx) :
          ReadStreamDataCall(cap, TRUE, arrive)
          => IF result' = "SUCCESS"
             THEN LET avail == rx \o arrive
                      read == SubSeq(avail, 1, Len(avail) - Len(rx'))
                  IN  \E j \in 1..Len(read) :
                          LET f == SubSeq(read, j, Len(read))
                          IN  /\ IsFrame(f) /\ FrameSumZero(f)
                              /\ buffer' = FrameContent(f)
                              /\ bufferSize' = FrameN(f)
             ELSE buffer' = <<>> /\ bufferSize' = Unwritten]_vars

\* C7: readStreamData always returns, also when the transport keeps supplying bytes.
ReadStreamDataReturns == (pc # "idle") ~> (pc = "idle")

\* C8: when no byte becomes available within the timeout, readStreamData returns
\* TIMEOUT, reads no byte, changes no framer state, and the framer is in
\* WAIT_HEADER for the next attempt, whatever calls preceded it.
TimeoutPath ==
    [][\A cap \in Caps :
          (Streaming /\ rx = <<>> /\ ReadStreamDataCall(cap, TRUE, <<>>))
          => (/\ result' = "TIMEOUT"
              /\ rx' = rx
              /\ FramerUnchanged
              /\ _streamState' = "WAIT_HEADER")]_vars

\* C9: for a frame whose bytes are all available in one call, readStreamData
\* returns BUFFER_OVERFLOW if and only if the declared length N exceeds 100;
\* every frame with 0 <= N <= 100 ends in SUCCESS or CHECKSUM_ERROR.
OverflowIffTooLong ==
    [][\A cap \in Caps, f \in Arrivals :
          (/\ Streaming
           /\ _streamState = "WAIT_HEADER"
           /\ rx = <<>>
           /\ IsFrame(f)
           /\ ReadStreamDataCall(cap, TRUE, f))
          => /\ (result' = "BUFFER_OVERFLOW") <=> (FrameN(f) > STREAM_BUFFER)
             /\ FrameN(f) <= STREAM_BUFFER
                  => result' \in {"SUCCESS", "CHECKSUM_ERROR"}]_vars

ReadOfStoppedStream ==
    [][\A arrive \in SensorArrivalsAt(rx), junk \in JunkVals :
          (/\ _initialized /\ ~_streamingActive
           /\ \/ UpdateFromStreamCall(arrive, junk)
              \/ ReadStreamDataCall(STREAM_BUFFER, TRUE, arrive))
          => (/\ result' = "COMMUNICATION_ERROR"
              /\ rx' = rx
              /\ sensorData' = sensorData)]_vars

\* the call whose result the state shows: parseStreamBuffer(DecBuf, Len(DecBuf),
\* DecBefore), the buffer built from the records DecRecs
Decoded == op = "parseStreamBuffer"

DecBuf == args[1]

DecBefore == args[2]

DecRecs == args[4]

\* bit i of a byte
Bit(byte, i) == (byte \div (2 ^ i)) % 2 = 1

\* the SensorData sd holds the value of the record in the fields of its ID
Holds(sd, rec) ==
    LET flds == DecodeRule(rec.id).fields
    IN  CASE rec.kind = "bits" ->
               \A j \in 1..Len(flds) : sd[flds[j]] = Bit(rec.value, j - 1)
          [] rec.kind = "bool" -> sd[flds[1]] = (rec.value = 1)
          [] OTHER -> sd[flds[1]] = rec.value

\* the fields the records of recs are stored in
FieldsOf(recs) ==
    UNION {{DecodeRule(recs[i].id).fields[j] :
               j \in 1..Len(DecodeRule(recs[i].id).fields)} : i \in 1..Len(recs)}

\* C12: for a content buffer built from (packet_id, value) records of the packet
\* IDs 7..58, parseStreamBuffer returns SUCCESS, consumes 1 + width bytes per
\* record and leaves exactly the records' values in the fields of their IDs.
CursorDeterminism ==
    (Decoded /\ DecRecs # <<>>)
    => /\ result = "SUCCESS"
       /\ ParseStreamBuffer(DecBuf, Len(DecBuf), DecBefore, args[3]).index
             = Len(DecBuf)
       /\ \A i \in 1..Len(DecRecs) :
             (\A k \in (i + 1)..Len(DecRecs) : DecRecs[k].id # DecRecs[i].id)
             => Holds(sensorData, DecRecs[i])
       /\ \A f \in DOMAIN sensorData \ FieldsOf(DecRecs) :
             sensorData[f] = DecBefore[f]

\* sd holds the value of the record rec and, in every other field, what before
\* holds
OnlyWritten(sd, rec, before) ==
    /\ Holds(sd, rec)
    /\ \A f \in DOMAIN sd \ FieldsOf(<<rec>>) : sd[f] = before[f]

\* C13: on a packet-ID byte without a decode rule, parseStreamBuffer returns an
\* error and writes no field from that point on: SensorData is as the records
\* before that byte left it, whatever bytes follow (here the byte is first in
\* the buffer or follows one whole record).
UnknownIdAborts ==
    Decoded
    => /\ (DecBuf # <<>> /\ DecBuf[1] \notin RuleIds)
            => (result # "SUCCESS" /\ sensorData = DecBefore)
       /\ \A lead \in LeadRecords :
            LET pre == EncodeRecord(lead)
            IN  (/\ Len(DecBuf) > Len(pre)
                 /\ SubSeq(DecBuf, 1, Len(pre)) = pre
                 /\ DecBuf[Len(pre) + 1] \notin RuleIds)
                => (/\ result # "SUCCESS"
                    /\ OnlyWritten(sensorData, lead, DecBefore))

\* an unknown ID between two whole records: the first is stored, the second not
AbortedBetweenRecords ==
    /\ Decoded
    /\ DecBuf = <<7, 10, 59, 22, 128, 0>>
    /\ DecBefore = ResetData
    /\ result = "INVALID_PARAMETER"
    /\ sensorData.bumpLeft = TRUE
    /\ sensorData.voltage = 0

\* C14: whenever parseStreamBuffer returns an error, every sensor field of
\* SensorData has the value it had before the decode began.
DecodeAllOrNothing ==
    (Decoded /\ result # "SUCCESS")
    => \A f \in SensorFields : sensorData[f] = DecBefore[f]

\* the packet IDs C16 lists as signed and as unsigned two-byte values
SignedIds == {23, 39, 40, 41, 42} \cup 54..57

UnsignedIds == {22, 25, 26} \cup 27..31 \cup {43, 44} \cup 46..51

\* C16: a two-byte record is stored as hi*256 + lo, as the 16-bit two's-complement
\* reading for the signed IDs and as the unsigned value for the unsigned IDs;
\* TEMPERATURE (24) is stored as a signed byte.
TwoByteSignedness ==
    Decoded
    => /\ (Len(DecBuf) = 3 /\ DecBuf[1] \in SignedIds \cup UnsignedIds)
            => LET raw == DecBuf[2] * 256 + DecBuf[3]
                   stored == sensorData[DecodeRule(DecBuf[1]).fields[1]]
               IN  /\ result = "SUCCESS"
                   /\ stored = IF DecBuf[1] \in SignedIds /\ raw >= 32768
                               THEN raw - 65536
                               ELSE raw
       /\ (Len(DecBuf) = 2 /\ DecBuf[1] = 24)
            => /\ result = "SUCCESS"
               /\ sensorData.temperature = IF DecBuf[2] >= 128
                                           THEN DecBuf[2] - 256
                                           ELSE DecBuf[2]

\* the current 0xFF00 decoded as -256
NegativeCurrentDecoded ==
    /\ Decoded
    /\ DecBuf = <<23, 255, 0>>
    /\ result = "SUCCESS"
    /\ sensorData.current = 0 - 256

\* C15: on an initialized core whose stream is not running,
\* startStreaming([7, 22]) transmits 148, 2, 7, 22 and succeeds, and the
\* updateFromStream call that follows it on a fresh SensorData, given the valid
\* frame [19, 5, 7, b, 22, hi, lo, checksum], returns SUCCESS with bumpRight,
\* bumpLeft, wheelDropRight, wheelDropLeft = bits 0..3 of b and
\* voltage = hi*256 + lo.
StreamRoundTrip ==
    [][/\ (_initialized /\ ~_streamingActive /\ StartStreamingCall(<<7, 22>>, 2))
            => (sent' = <<148, 2, 7, 22>> /\ result' = "SUCCESS")
       /\ (/\ op = "startStreaming" /\ result = "SUCCESS"
           /\ args = <<(<<7, 22>>), 2>>
           /\ op' = "updateFromStream")
          => LET b == args'[1]
                 hi == args'[2]
                 lo == args'[3]
             IN (/\ result' = "SUCCESS"
                /\ rx' = <<>>
                /\ sensorData'.bumpRight = Bit(b, 0)
                /\ sensorData'.bumpLeft = Bit(b, 1)
                /\ sensorData'.wheelDropRight = Bit(b, 2)
                /\ sensorData'.wheelDropLeft = Bit(b, 3)
                /\ sensorData'.voltage = hi * 256 + lo)]_vars

\* the round trip of b = 10 and the voltage 0x8001
RoundTripMade ==
    /\ op = "updateFromStream"
    /\ args = <<10, 128, 1>>
    /\ sent = <<>>
    /\ result = "SUCCESS"
    /\ sensorData.bumpLeft /\ ~sensorData.bumpRight
    /\ sensorData.wheelDropLeft /\ ~sensorData.wheelDropRight
    /\ sensorData.voltage = 32769

(***************************************************************************)
(* Properties of the command encoder.                                      *)
(***************************************************************************)
\* the 16-bit two's-complement pattern of v, high byte first
Wire16(v) ==
    LET u == IF v < 0 THEN v + 65536 ELSE v
    IN  <<u \div 256, u % 256>>

InRange(v, lo, hi) == lo <= v /\ v <= hi

Refused == result = "INVALID_PARAMETER" /\ sent = <<>>

\* C17: drive(v, r) returns INVALID_PARAMETER and writes nothing whenever v is
\* outside [-500, 500] or r is neither in [-2000, 2000] nor the straight
\* sentinel; driveDirect refuses a wheel velocity outside [-500, 500] and
\* drivePWM a PWM outside [-255, 255], writing nothing.
DriveFailsClosed ==
    /\ (/\ op = "drive"
        /\ \/ ~InRange(args[1], 0 - 500, 500)
           \/ (~InRange(args[2], 0 - 2000, 2000) /\ Wire16(args[2]) # <<128, 0>>))
       => Refused
    /\ (/\ op = "driveDirect"
        /\ (~InRange(args[1], 0 - 500, 500) \/ ~InRange(args[2], 0 - 500, 500)))
       => Refused
    /\ (/\ op = "drivePWM"
        /\ (~InRange(args[1], 0 - 255, 255) \/ ~InRange(args[2], 0 - 255, 255)))
       => Refused

\* drive(600, 0) refused on an initialized core
DriveTooFastRefused ==
    /\ _initialized
    /\ op = "drive"
    /\ args = <<600, 0>>
    /\ Refused

Min500(v) == IF v < 0 THEN Min(0 - v, 500) ELSE Min(v, 500)

\* C18: on an initialized core, for every 16-bit v, moveForward(v) transmits
\* DRIVE with velocity min(|v|, 500) and radius bytes 0x80 0x00, moveBackward(v)
\* velocity -min(|v|, 500) with the same radius, turnLeft(v) and turnRight(v)
\* velocity min(|v|, 500) with radius 1 and -1; none returns INVALID_PARAMETER.
WrappersClamp ==
    _initialized
    => /\ op = "moveForward"
            => (/\ sent = <<137>> \o Wire16(Min500(args[1])) \o <<128, 0>>
                /\ result # "INVALID_PARAMETER")
       /\ op = "moveBackward"
            => (/\ sent = <<137>> \o Wire16(0 - Min500(args[1])) \o <<128, 0>>
                /\ result # "INVALID_PARAMETER")
       /\ op = "turnLeft"
            => (/\ sent = <<137>> \o Wire16(Min500(args[1])) \o Wire16(1)
                /\ result # "INVALID_PARAMETER")
       /\ op = "turnRight"
            => (/\ sent = <<137>> \o Wire16(Min500(args[1])) \o Wire16(0 - 1)
                /\ result # "INVALID_PARAMETER")

ValidDrive(v, r) ==
    /\ InRange(v, 0 - 500, 500)
    /\ (InRange(r, 0 - 2000, 2000) \/ Wire16(r) = <<128, 0>>)

\* C19: on an initialized core, drive(v, r) with valid (v, r) writes exactly
\* 137, high byte of v, low byte of v, high byte of r, low byte of r; driveDirect
\* and drivePWM write 145 and 146 and their two parameters, high byte first,
\* right before left.
BigEndianEncoding ==
    _initialized
    => /\ (op = "drive" /\ ValidDrive(args[1], args[2]))
            => sent = <<137>> \o Wire16(args[1]) \o Wire16(args[2])
       /\ (/\ op = "driveDirect"
           /\ InRange(args[1], 0 - 500, 500) /\ InRange(args[2], 0 - 500, 500))
            => sent = <<145>> \o Wire16(args[1]) \o Wire16(args[2])
       /\ (/\ op = "drivePWM"
           /\ InRange(args[1], 0 - 255, 255) /\ InRange(args[2], 0 - 255, 255))
            => sent = <<146>> \o Wire16(args[1]) \o Wire16(args[2])

\* drive(-200, 500) and driveDirect(right 256, left -1) on the wire
NegativeVelocityEncoded ==
    /\ _initialized
    /\ \/ (op = "drive" /\ args = <<0 - 200, 500>>
           /\ sent = <<137, 255, 56, 1, 244>>)
       \/ (op = "driveDirect" /\ args = <<256, 0 - 1>>
           /\ sent = <<145, 1, 0, 255, 255>>)

\* the arguments of the last command are valid ones
ValidArgs ==
    CASE op = "drive" -> ValidDrive(args[1], args[2])
      [] op = "driveDirect" ->
           InRange(args[1], 0 - 500, 500) /\ InRange(args[2], 0 - 500, 500)
      [] op = "drivePWM" ->
           InRange(args[1], 0 - 255, 255) /\ InRange(args[2], 0 - 255, 255)
      [] op = "playSong" -> args[1] <= 4
      [] op = "changeBaudRate" -> args[1] \in {300, 19200, 115200}
      [] op \in {"moveForward", "moveBackward", "turnLeft", "turnRight"} ->
           args[1] # 0 - 32768
      [] op \in {"simple", "setMotors", "stop"} -> TRUE
      [] op = "defineSong" -> SongIsValid(args[1])
      [] op = "setSchedule" -> ScheduleIsValid(args[1])
      [] op = "setDayTime" -> SetDayTimeOutcome(TRUE, args[1], args[2], args[3]).ret = "SUCCESS"
      [] OTHER -> FALSE

\* C20: a command with valid parameters on a core that is not initialized
\* returns NOT_INITIALIZED and writes no byte, whether it has no parameter, one
\* parameter or several.
NotInitializedWritesNothing ==
    (~_initialized /\ ValidArgs)
    => (result = "NOT_INITIALIZED" /\ sent = <<>>)

\* a command of each shape refused by a core that is not initialized
RefusedUninitialized ==
    /\ ~_initialized
    /\ result = "NOT_INITIALIZED"
    /\ sent = <<>>
    /\ \/ (op = "simple" /\ args = <<131>>)
       \/ (op = "setMotors" /\ args[1])
       \/ (op = "drive" /\ args = <<200, 0>>)

\* the song has a slot, a length or a note among the first `length` that C21
\* refuses
BadSong(song) ==
    \/ song.songNumber > 4
    \/ song.songLength = 0
    \/ song.songLength > 16
    \/ \E i \in 1..song.songLength :
          \/ ~InRange(song.notes[i].noteNumber, 31, 127)
          \/ song.notes[i].noteDuration = 0

\* (note number, duration) of the first n notes, in order
NoteBytes(notes, n) ==
    [k \in 1..(2 * n) |->
        IF k % 2 = 1 THEN notes[(k + 1) \div 2].noteNumber
        ELSE notes[k \div 2].noteDuration]

\* C21: defineSong(song) returns INVALID_PARAMETER and writes nothing when the
\* slot is > 4, the length is 0 or > 16, or one of the first `length` notes has a
\* number outside [31, 127] or the duration 0; otherwise, on an initialized core,
\* it writes 140, slot, length and (number, duration) of each note in order and
\* returns SUCCESS.
SongValidation ==
    op = "defineSong"
    => LET song == args[1]
       IN  /\ BadSong(song) => Refused
           /\ (~BadSong(song) /\ _initialized)
                => (/\ result = "SUCCESS"
                    /\ Len(sent) = 3 + 2 * song.songLength
                    /\ sent = <<140, song.songNumber, song.songLength>>
                              \o NoteBytes(song.notes, song.songLength))

\* a song whose first note has the number 20, refused on an initialized core
LowNoteRefused ==
    /\ _initialized
    /\ op = "defineSong"
    /\ args[1].songLength = 2
    /\ args[1].songNumber = 0
    /\ args[1].notes[1] = [noteNumber |-> 20, noteDuration |-> 1]
    /\ Refused

\* every hour of the schedule is below 24 and every minute below 60
ValidTimes(schedule) ==
    /\ \A h \in {"sunHour", "monHour", "tueHour", "wedHour", "thuHour",
                 "friHour", "satHour"} : schedule[h] < 24
    /\ \A m \in {"sunMinute", "monMinute", "tueMinute", "wedMinute",
                 "thuMinute", "friMinute", "satMinute"} : schedule[m] < 60

\* C22: for a valid schedule on an initialized core, setSchedule writes 167 and
\* then every field of ScheduleData in declaration order: enabledDays, then
\* hour and minute for Sunday through Saturday (15 parameter bytes).
ScheduleFieldOrder ==
    (_initialized /\ op = "setSchedule" /\ ValidTimes(args[1]))
    => LET sch == args[1]
       IN  sent = <<167, sch.enabledDays, sch.sunHour, sch.sunMinute,
                    sch.monHour, sch.monMinute, sch.tueHour, sch.tueMinute,
                    sch.wedHour, sch.wedMinute, sch.thuHour, sch.thuMinute,
                    sch.friHour, sch.friMinute, sch.satHour, sch.satMinute>>

ValidDayTime(day, hour, minute) == day <= 6 /\ hour < 24 /\ minute < 60

\* C23: setDayTime with day > 6, hour >= 24 or minute >= 60, and setSchedule
\* with an hour >= 24 or a minute >= 60, return INVALID_PARAMETER and write
\* nothing; a valid setDayTime on an initialized core writes exactly
\* 168, day, hour, minute.
ClockFailsClosed ==
    /\ (op = "setDayTime" /\ ~ValidDayTime(args[1], args[2], args[3]))
         => Refused
    /\ (op = "setSchedule" /\ ~ValidTimes(args[1])) => Refused
    /\ (op = "setDayTime" /\ ValidDayTime(args[1], args[2], args[3])
        /\ _initialized)
         => sent = <<168, args[1], args[2], args[3]>>

\* a schedule with the Saturday minute 60, refused on an initialized core
BadMinuteRefused ==
    /\ _initialized
    /\ op = "setSchedule"
    /\ args[1] = [BaseSchedule EXCEPT !.satMinute = 60]
    /\ Refused

(***************************************************************************)
(* Properties of the refresh policy of updateFromStream.                   *)
(***************************************************************************)
\* the step is a call of updateFromStream
IsUpdate ==
    \E arrive \in SensorArrivalsAt(rx), junk \in JunkVals :
        UpdateFromStreamCall(arrive, junk)

\* C24: while streaming is active, an updateFromStream call at a time
\* now < sensorData.nextRefresh reads nothing (the unread bytes and the framer
\* are untouched) and leaves every field of SensorData unchanged.
RefreshThrottle ==
    [][(/\ sensors_streamingActive
        /\ now < sensorData.nextRefresh
        /\ op' = "updateFromStream"
        /\ IsUpdate)
       => (/\ rx' = rx
           /\ FramerUnchanged
           /\ sensorData' = sensorData)]_vars

\* a throttled call has returned: its SUCCESS stands beside a failure count that
\* a refresh would have reset
ThrottledAfterFailure ==
    /\ sensors_streamingActive
    /\ op = "updateFromStream"
    /\ result = "SUCCESS"
    /\ now < sensorData.nextRefresh
    /\ sensorData.failedAttempts = 1
    /\ sensorData.lastSuccessfulRefresh = 0

\* C25: while streaming is active, an updateFromStream call at a time
\* now >= nextRefresh sets nextRefresh = now + 40 and increments failedAttempts;
\* when the frame is read and decoded it sets lastSuccessfulRefresh = now and
\* failedAttempts = 0, and on a framing or decode failure failedAttempts keeps
\* the incremented value and lastSuccessfulRefresh its old one.
RefreshAccounting ==
    [][(/\ sensors_streamingActive
        /\ now >= sensorData.nextRefresh
        /\ op' = "updateFromStream"
        /\ IsUpdate)
       => (/\ sensorData'.nextRefresh = now + 40
           /\ IF result' = "SUCCESS"
              THEN /\ sensorData'.lastSuccessfulRefresh = now
                   /\ sensorData'.failedAttempts = 0
              ELSE /\ sensorData'.failedAttempts =
                         (sensorData.failedAttempts + 1) % 65536
                   /\ sensorData'.lastSuccessfulRefresh =
                         sensorData.lastSuccessfulRefresh)]_vars

\* the second attempt in a row has failed, 40 ms after the first
SecondFailureCounted ==
    /\ sensors_streamingActive
    /\ op = "updateFromStream"
    /\ result \notin {"SUCCESS", "NONE"}
    /\ now = 40
    /\ sensorData.nextRefresh = 80
    /\ sensorData.failedAttempts = 2
    /\ sensorData.lastSuccessfulRefresh = 0

\* C26: across any sequence of updateFromStream calls failedAttempts never
\* decreases except when a successful refresh resets it to 0, for any number of
\* consecutive failed attempts.
AttemptsNeverDecrease ==
    [][sensorData'.failedAttempts < sensorData.failedAttempts
       => (/\ op' = "updateFromStream"
           /\ result' = "SUCCESS"
           /\ sensorData'.failedAttempts = 0
           /\ sensorData'.lastSuccessfulRefresh = now)]_vars

(***************************************************************************)
(* Further properties of the stream of the core.                           *)
(***************************************************************************)
\* C27: on an initialized core, startStream(list, n) with a list and
\* 1 <= n <= 60 writes 148, n and the n sensor IDs in order, after 148, 0 when a
\* stream is already active, and leaves the stream active with the framer at
\* WAIT_HEADER; with n = 0, n > 60 or a null list it returns INVALID_PARAMETER,
\* writes nothing and leaves the streaming flag as it was; stopStream writes
\* 148, 0 and leaves the stream inactive.
StreamProtocol ==
    [][_initialized
       => /\ \A list \in ProtocolLists : \A n \in ProtocolCounts(list) :
               StartStreamCall(list, n)
               => IF list # <<>> /\ 1 <= n /\ n <= 60
                  THEN /\ result' = "SUCCESS"
                       /\ sent' = (IF _streamingActive THEN <<148, 0>> ELSE <<>>)
                                  \o <<148, n>> \o SubSeq(list, 1, n)
                       /\ _streamingActive'
                       /\ _streamState' = "WAIT_HEADER"
                       /\ _streamBufferIndex' = 0
                  ELSE /\ result' = "INVALID_PARAMETER"
                       /\ sent' = <<>>
                       /\ _streamingActive' = _streamingActive
          /\ StopStream
               => (/\ result' = "SUCCESS"
                   /\ sent' = <<148, 0>>
                   /\ ~_streamingActive')]_vars

\* a stream started while another was active: the stop sequence goes first
StreamRestarted ==
    /\ _initialized
    /\ op = "startStream"
    /\ result = "SUCCESS"
    /\ sent = <<148, 0, 148, 2, 7, 22>>
    /\ _streamingActive
    /\ _streamState = "WAIT_HEADER"

\* the step is an updateFromStream call that read the checksum-valid frame the
\* robot delivered, whole, and left SensorData refreshed at the time now
RefreshedFromFrame ==
    /\ sensorData'.lastSuccessfulRefresh = now
    /\ sensorData'.failedAttempts = 0
    /\ rx' = <<>>
    /\ \E arrive \in SensorArrivalsAt(rx), junk \in JunkVals :
          /\ UpdateFromStreamCall(arrive, junk)
          /\ IsValidFrame(rx \o arrive)
          /\ buffer' = FrameContent(rx \o arrive)

\* C28 as stated: updateFromStream returns SUCCESS only if, within that call, a
\* checksum-valid frame was read and decoded into SensorData, so that
\* lastSuccessfulRefresh is the time of the call and failedAttempts = 0.
SuccessOnlyAfterRefresh ==
    [][(op' = "updateFromStream" /\ IsUpdate /\ result' = "SUCCESS")
       => RefreshedFromFrame]_vars

\* C28: updateFromStream returns SUCCESS only if the call was throttled
\* (now < nextRefresh: nothing is read, SensorData is unchanged) or, within that
\* call, a checksum-valid frame was read and decoded into SensorData, so that
\* lastSuccessfulRefresh is the time of the call and failedAttempts = 0.
SuccessThrottledOrRefreshed ==
    [][(op' = "updateFromStream" /\ IsUpdate /\ result' = "SUCCESS")
       => \/ (/\ now < sensorData.nextRefresh
              /\ sensorData' = sensorData
              /\ rx' = rx)
          \/ (now >= sensorData.nextRefresh /\ RefreshedFromFrame)]_vars

\* a refresh at the time 40 from the frame [7, 5, 22, 128, 1]
RefreshedAtForty ==
    /\ op = "updateFromStream"
    /\ result = "SUCCESS"
    /\ now = 40
    /\ buffer = <<7, 5, 22, 128, 1>>
    /\ sensorData.lastSuccessfulRefresh = 40
    /\ sensorData.failedAttempts = 0
    /\ sensorData.voltage = 32769

\* C29: header resynchronisation.  With the framer in WAIT_HEADER, a
\* readStreamData call that finds a run of bytes other than 19 and then a whole
\* valid frame of 1 to 100 content bytes discards the run and returns SUCCESS
\* with exactly the content of that frame.
HeaderResync ==
    [][(/\ op' = "readStreamData"
        /\ _initialized
        /\ _streamingActive
        /\ _streamState = "WAIT_HEADER"
        /\ rx = <<>>)
       => \A cap \in Caps, run \in NoiseRuns, C \in NoisyContents :
             ReadStreamDataCall(cap, TRUE, run \o Frame(C, GoodChecksum(C)))
             => /\ result' = "SUCCESS"
                /\ rx' = <<>>
                /\ bufferSize' = Len(C)
                /\ buffer' = C]_vars

RECURSIVE EndsInsideRecord(_, _)
\* the records of buf from index on are known ones and the last of them has its
\* packet ID followed by fewer value bytes than its width
EndsInsideRecord(buf, index) ==
    IF index >= Len(buf) \/ buf[index + 1] \notin RuleIds THEN FALSE
    ELSE LET next == index + 1 + ValueWidth(buf[index + 1])
         IN  next > Len(buf) \/ EndsInsideRecord(buf, next)

\* C30: the decoder never reads outside the content buffer.  What
\* parseStreamBuffer returns and stores is the same whatever the memory past
\* the buffer holds, and a buffer whose last record has fewer value bytes than
\* the width of its packet ID gives an error, not SUCCESS.
DecoderStaysInside ==
    Decoded
    => /\ \A junk \in JunkVals :
            LET r == ParseStreamBuffer(DecBuf, Len(DecBuf), DecBefore, junk)
            IN  r.ret = result /\ r.sd = sensorData
       /\ EndsInsideRecord(DecBuf, 0) => result # "SUCCESS"

\* C31: getPresetSensorList stores at most maxSensors entries in sensorList and
\* returns at most maxSensors, for every preset and every maxSensors in 0..255.
PresetFitsRoom ==
    op = "getPresetSensorList"
    => /\ Len(buffer) <= args[2]
       /\ result <= args[2]

\* C32: every packet ID of every preset list has a decode rule, and the content
\* of a well-formed frame of a preset-started stream is decoded with SUCCESS.
PresetsDecodable ==
    /\ \A preset \in Presets :
         \A i \in DOMAIN PresetList(preset) : PresetList(preset)[i] \in RuleIds
    /\ (op = "parseStreamBuffer" /\ buffer # <<>>) => result = "SUCCESS"

\* a frame of the BUTTONS preset has been decoded
ButtonsFrameDecoded ==
    /\ op = "parseStreamBuffer"
    /\ buffer = <<18, 17, 52, 53>>
    /\ DecBuf = <<18, 255, 17, 255, 52, 255, 53, 255>>
    /\ DecBefore = ResetData
    /\ result = "SUCCESS"
    /\ sensorData.clockButton
    /\ sensorData.infraredCharacterRight = 255

\* C33: when the robot answers the query of getBatteryInfo with the nine value
\* bytes of the five packets, the call returns SUCCESS with the five outputs
\* equal to the values carried; on any error the outputs are left unchanged.
BatteryInfoReturned ==
    op = "getBatteryInfo"
    => /\ (_initialized /\ args[1] # <<>>)
            => (result = "SUCCESS" /\ args[3] = args[1][1])
       /\ result # "SUCCESS" => args[3] = args[2]

\* C35: for every response byte b, getBumperSensors and getWheelDropSensors
\* report the bumpLeft, bumpRight, wheelDropLeft and wheelDropRight that
\* parseStreamBuffer stores for the record [7, b].
AccessorsAgreeWithDecoder ==
    (op \in {"getBumperSensors", "getWheelDropSensors"} /\ result = "SUCCESS")
    => LET b == args[1][1]
           sd == ParseStreamBuffer(<<7, b>>, 2, ResetData, 0).sd
       IN  /\ op = "getBumperSensors"
                => args[3] = Sides(sd.bumpLeft, sd.bumpRight)
           /\ op = "getWheelDropSensors"
                => args[3] = Sides(sd.wheelDropLeft, sd.wheelDropRight)

\* the byte 2 answered to getBumperSensors: the left bumper alone
LeftBumpReported ==
    /\ op = "getBumperSensors"
    /\ result = "SUCCESS"
    /\ sent = <<OP_SENSORS, 7>>
    /\ args[1] = <<2>>
    /\ args[3] = Sides(TRUE, FALSE)

\* the fields the protocol gives to the bits 0, 1, ... of a bitfield packet
ProtocolBits(id) ==
    CASE id = 7 -> <<"bumpRight", "bumpLeft", "wheelDropRight", "wheelDropLeft">>
      [] id = 14 -> <<"sideBrushOvercurrent", "vacuumOvercurrent",
                      "mainBrushOvercurrent", "wheelRightOvercurrent",
                      "wheelLeftOvercurrent">>
      [] id = 18 -> <<"cleanButton", "spotButton", "dockButton", "minuteButton",
                      "hourButton", "dayButton", "scheduleButton", "clockButton">>
      [] id = 45 -> <<"lightBumperLeft", "lightBumperFrontLeft",
                      "lightBumperCenterLeft", "lightBumperCenterRight",
                      "lightBumperFrontRight", "lightBumperRight">>
      [] id = 34 -> <<"internalChargerAvailable", "homeBaseChargerAvailable">>
      [] id = 58 -> <<"stasisToggling", "stasisDisabled">>

\* C34: a bitfield record [id, b] is unpacked least significant bit first into
\* the fields of its packet, for every byte b, and no other field of
\* SensorData changes.
BitfieldMapping ==
    /\ BitfieldIds = {7, 14, 18, 45, 34, 58}
    /\ (Decoded /\ Len(DecBuf) = 2 /\ DecBuf[1] \in {7, 14, 18, 45, 34, 58})
       => LET flds == ProtocolBits(DecBuf[1])
              named == {flds[i] : i \in 1..Len(flds)}
          IN  /\ result = "SUCCESS"
              /\ \A i \in 1..Len(flds) : sensorData[flds[i]] = Bit(DecBuf[2], i - 1)
              /\ \A f \in DOMAIN sensorData \ named : sensorData[f] = DecBefore[f]

\* the BUTTONS byte 129 decoded over a SensorData whose flags were all set:
\* the clean and clock buttons alone stay set
CleanAndClockPressed ==
    /\ Decoded
    /\ DecBuf = <<18, 129>>
    /\ DecBefore = MarkedData
    /\ sensorData.cleanButton /\ sensorData.clockButton
    /\ ~sensorData.spotButton /\ ~sensorData.scheduleButton

RECURSIVE BeepBytes(_, _, _, _)
\* the note bytes of count beeps with a pause between each two
BeepBytes(count, frequency, duration, pause) ==
    IF count = 1 THEN <<frequency, duration>>
    ELSE <<frequency, duration, 31, pause>>
         \o BeepBytes(count - 1, frequency, duration, pause)

\* C36: beepSequence with count = 0 or count > 8, with an invalid beep note or,
\* for count >= 2, an invalid pause note returns INVALID_PARAMETER and
\* transmits nothing; otherwise, on an initialized core (and a song slot of 0
\* to 4), it defines a song of exactly 2*count - 1 notes and then transmits
\* PLAY for the same slot.
BeepSequenceStrict ==
    op = "beepSequence"
    => LET count == args[1]
           frequency == args[2]
           duration == args[3]
           pause == args[4]
           songSlot == args[5]
       IN  IF \/ count = 0
              \/ count > 8
              \/ ~NoteIsValid([noteNumber |-> frequency, noteDuration |-> duration])
              \/ (count >= 2
                  /\ ~NoteIsValid([noteNumber |-> 31, noteDuration |-> pause]))
           THEN result = "INVALID_PARAMETER" /\ sent = <<>>
           ELSE (_initialized /\ songSlot <= MAX_SONGS)
                => /\ result = "SUCCESS"
                   /\ sent = <<OP_SONG, songSlot, 2 * count - 1>>
                             \o BeepBytes(count, frequency, duration, pause)
                             \o <<OP_PLAY, songSlot>>

\* C37: _readStream presented with exactly one frame [19, N, C..., checksum],
\* N >= 1, returns true if and only if (19 + N + sum(C) + checksum) mod 256 = 0,
\* leaving the N content bytes in _streamBuffer with _streamBufferCursor = N.
LegacyFrameAccepted ==
    (op = "_readStream" /\ IsFrame(args[1]) /\ FrameN(args[1]) >= 1)
    => /\ (result = "true") <=> FrameSumZero(args[1])
       /\ args[2] = FrameContent(args[1])
       /\ args[3] = FrameN(args[1])

\* C38: for a content buffer of packet IDs both decoders handle,
\* _parseStreamBuffer and parseStreamBuffer accept it alike and leave the same
\* value in the same-named field; 49 ends in lightBumpCenterRightSignal and
\* bit 7 of BUTTONS in clockButton.
LegacyDecoderAgrees ==
    /\ LegacyRuleIds = RuleIds
    /\ (op = "_parseStreamBuffer" /\ args[1][1] \in RuleIds \cap LegacyRuleIds)
       => LET m == ParseStreamBuffer(args[1], Len(args[1]), args[2], args[3])
          IN  /\ (result = "true") <=> (m.ret = "SUCCESS")
              /\ \A f \in DOMAIN m.sd : args[4][f] = m.sd[f]

\* C39: getBatteryPercentage returns -1 when batteryCapacity is 0 and otherwise
\* a value in 0..100, for every batteryCharge and batteryCapacity a decoded
\* frame can store.
BatteryPercentageInRange ==
    op = "getBatteryPercentage"
    => IF sensorData.batteryCapacity = 0 THEN result = 0 - 1
       ELSE result \in 0..100

\* C40: whenever handleClient, with the web server running, sees an established
\* connection lost while fewer than MAX_RECONNECT_ATTEMPTS attempts have been
\* made, a reconnect() reaches WiFi.begin in that call or in a later
\* handleClient call, however recent the previous attempt.
LostConnectionRetried == wifi.owed ~> ~wifi.owed

====
